---- MODULE Spec2Model ----
(***************************************************************************)
(* ROPfuscator: the ROP-chain lowering and emission engine                 *)
(* (ROPfuscatorCore::insertROPChain), the function driver                  *)
(* (ROPfuscatorCore::obfuscateFunction) and the lowered push instructions  *)
(* (PUSH_IMM, PUSH_GV, PUSH_GADGET, PUSH_LABEL, PUSH_ESP, PUSH_EFLAGS).     *)
(*                                                                         *)
(* 32-bit words are kept as their two's-complement value in                *)
(* -2^31 .. 2^31-1; Add32/Sub32 wrap exactly as uint32_t arithmetic does.  *)
(***************************************************************************)
EXTENDS Integers, Sequences, FiniteSets, TLC

VARIABLES
  pc,          \* position of the pass: "idle", "blocks", "iter", "emitted",
               \* "fatal" (after exit(1))
  BA,          \* Binary Autopsy singleton created (BA != nullptr)
  TII,         \* target instruction info cached (TII != nullptr)
  is64Bit,     \* the subtarget of the module
  isUsed,      \* Symbol::isUsed, the set of symbols whose flag is true
  instr_stat,  \* opcode -> status -> count
  curFunc,     \* the machine function being processed (name, parameter)
  MBB,         \* instructions of the block being iterated, up to the iterator
  succs,       \* the block iterated last has a layout successor among its
               \* successors
  it,          \* index of the next instruction of MBB
  chain0,      \* pending merged chain
  prevMI,      \* index in MBB of the flush anchor, 0 for nullptr
  chainID,     \* next chain id of the function
  instrToDelete, \* indices of MBB to erase after the block
  calls,       \* the calls of insertROPChain for the function, with what
               \* each emitted
  erased,      \* ids of the instructions erased from the function, in order
  hist,        \* per processed instruction: ropifier result, final status
  nInstr,      \* instructions created so far (ids)
  symverLog,   \* symbols whose .symver directive has been emitted, in order
  lastEmit,    \* arguments and result of the insertROPChain call in progress
  pushDemo,    \* the push instruction compiled last, with what it emitted
  totals,      \* over all functions: instructions processed (processed++)
               \* and instructions erased (eraseFromParent)
  mergeDemo,   \* the chains merged last, with the merged chains
  cfg          \* the configuration: the algorithm strings read last and
               \* the algorithms of defaultParameter

vars == <<pc, BA, TII, is64Bit, isUsed, instr_stat, curFunc, MBB, succs, it,
          chain0, prevMI, chainID, instrToDelete, calls, erased, hist, nInstr,
          symverLog, lastEmit, pushDemo, totals, mergeDemo, cfg>>

----------------------------------------------------------------------------
(* Bounds of the model *)

\* longest abstract chain handed to the engine in the engine specification
MaxChainLen == 2
\* instructions created over one run of the driver specification
MaxInstrs == 3

----------------------------------------------------------------------------
(* 32-bit arithmetic *)

MaxS32 == 2147483647
MinS32 == (-MaxS32) - 1

S32 == MinS32 .. MaxS32

\* a + b modulo 2^32, on two's-complement representatives
Add32(a, b) ==
  IF a >= 0 /\ b >= 0
    THEN IF a > MaxS32 - b THEN (a + MinS32) + (b + MinS32) ELSE a + b
    ELSE IF a < 0 /\ b < 0
      THEN IF a < MinS32 - b THEN (a - MinS32) + (b - MinS32) ELSE a + b
      ELSE a + b

Neg32(a) == IF a = MinS32 THEN MinS32 ELSE -a

\* a - b modulo 2^32
Sub32(a, b) == Add32(a, Neg32(b))

----------------------------------------------------------------------------
(* Data model: chain elements, chains, parameters, symbols, gadgets *)

\* ChainElem: one record shape for every ChainElem::Type
Elem(type, value, global, microgadget, jmptarget, esp_id) ==
  [type |-> type, value |-> value, global |-> global,
   microgadget |-> microgadget, jmptarget |-> jmptarget, esp_id |-> esp_id]

ImmValue(v)     == Elem("IMM_VALUE", v, "", "", "", 0)
ImmGlobal(g, o) == Elem("IMM_GLOBAL", o, g, "", "", 0)
Gadget(g)       == Elem("GADGET", 0, "", g, "", 0)
JmpBlock(b)     == Elem("JMP_BLOCK", 0, "", "", b, 0)
JmpFallthrough  == Elem("JMP_FALLTHROUGH", 0, "", "", "", 0)
EspPush(id)     == Elem("ESP_PUSH", 0, "", "", "", id)
EspOffset(id, v) == Elem("ESP_OFFSET", v, "", "", "", id)

FlagSaveModes == {"NOT_SAVED", "SAVE_BEFORE_EXEC", "SAVE_AFTER_EXEC"}

\* ROPChain
Chain(elems, flagSave, cj, uj) ==
  [chain |-> elems, flagSave |-> flagSave,
   hasConditionalJump |-> cj, hasUnconditionalJump |-> uj]

EmptyChain == Chain(<<>>, "NOT_SAVED", FALSE, FALSE)

\* ROPChainStatus
Statuses == {"OK", "ERR_NOT_IMPLEMENTED", "ERR_NO_REGISTER_AVAILABLE",
             "ERR_NO_GADGETS_AVAILABLE", "ERR_UNSUPPORTED",
             "ERR_UNSUPPORTED_STACKPOINTER"}

\* ObfuscationParameter
Param(en, op, imm, br, div, maxb, algo) ==
  [obfuscationEnabled |-> en, opaquePredicateEnabled |-> op,
   obfuscateImmediateOperand |-> imm, obfuscateBranchTarget |-> br,
   opaqueBranchDivergenceEnabled |-> div,
   opaqueBranchDivergenceMaxBranches |-> maxb,
   opaqueConstantAlgorithm |-> algo]

\* Symbols exported by the analysed library (Label, Address, Version)
SymbolNames == {"exit", "fopen", "memcpy"}

SymbolTable ==
  [s \in SymbolNames |->
     CASE s = "exit"   -> [Label |-> "exit", Address |-> 4096, Version |-> "Base"]
       [] s = "fopen"  -> [Label |-> "fopen", Address |-> 8192, Version |-> "GLIBC_2.1"]
       [] s = "memcpy" -> [Label |-> "memcpy", Address |-> MaxS32 - 15, Version |-> "GLIBC_2.0"]]

\* Microgadgets found in the library, each with the addresses it occurs at
GadgetNames == {"pop_eax", "xchg"}

GadgetAddresses ==
  [g \in GadgetNames |->
     CASE g = "pop_eax" -> <<4100, 5000, 8200, MinS32 + 64>>
       [] g = "xchg"    -> <<6000>>]

\* X86 register numbers are ordered as the target's register enumeration
RegOrder == <<"EAX", "EBX", "ECX", "EDX", "EFLAGS">>

RegNum(r) == CHOOSE i \in 1..Len(RegOrder) : RegOrder[i] = r

\* the elements of a set of registers in increasing register number
RECURSIVE SortedRegs(_)
SortedRegs(S) ==
  IF S = {} THEN <<>>
  ELSE LET m == CHOOSE r \in S : \A q \in S : RegNum(r) <= RegNum(q)
       IN <<m>> \o SortedRegs(S \ {m})

Reverse(s) == [i \in 1..Len(s) |-> s[Len(s) + 1 - i]]

Min(a, b) == IF a <= b THEN a ELSE b

----------------------------------------------------------------------------
(* Opaque constructs (OpaqueConstructFactory), as seen by the engine *)

\* one construct: the values EAX may hold before (inputs) and after
\* (outputs) the value adjustor, and the registers the code clobbers
Opaque(present, inputs, outputs, clobbered) ==
  [present |-> present, inputs |-> inputs, outputs |-> outputs,
   clobbered |-> clobbered]

NoOpaque == Opaque(FALSE, <<>>, <<>>, {})

\* createOpaqueConstant32(EAX, algorithm): one output value
createOpaqueConstant32(o, clob) == Opaque(TRUE, <<>>, <<o>>, clob)

\* createBranchingOpaqueConstant32(EAX, k, algorithm): k output values
createBranchingOpaqueConstant32(o, k, clob) ==
  Opaque(TRUE, <<>>, [i \in 1..k |-> Add32(o, i - 1)], clob)

\* compose(createValueAdjustor(EAX, opaqueValues, offsets), opaqueConstant)
composeAdjustor(opq, offsets) ==
  Opaque(TRUE, opq.outputs, offsets, opq.clobbered)

----------------------------------------------------------------------------
(* X86AssembleHelper: the emitted instructions *)

\* one emitted item; label names are sequences of characters
Tok(op, reg, sym, label, imm, opq) ==
  [op |-> op, reg |-> reg, sym |-> sym, label |-> label, imm |-> imm,
   opq |-> opq]

AsPushImm(v)        == Tok("push_imm", "", "", <<>>, v, NoOpaque)
AsPushGV(gv, off)   == Tok("push_gv", "", gv, <<>>, off, NoOpaque)
AsPushSym(sym, off) == Tok("push_sym", "", sym, <<>>, off, NoOpaque)
AsPushLabel(l)      == Tok("push_label", "", "", l, 0, NoOpaque)
AsPushReg(r)        == Tok("push_reg", r, "", <<>>, 0, NoOpaque)
AsPopReg(r)         == Tok("pop_reg", r, "", <<>>, 0, NoOpaque)
AsPushf             == Tok("pushf", "EFLAGS", "", <<>>, 0, NoOpaque)
AsPopf              == Tok("popf", "EFLAGS", "", <<>>, 0, NoOpaque)
AsLeaEsp(off)       == Tok("lea_esp", "ESP", "", <<>>, off, NoOpaque)
AsAddImm(v)         == Tok("add_imm", "EAX", "", <<>>, v, NoOpaque)
AsAddGV(gv, off)    == Tok("add_gv", "EAX", gv, <<>>, off, NoOpaque)
AsAddSym(sym)       == Tok("add_sym", "EAX", sym, <<>>, 0, NoOpaque)
AsAddLabel(l, off)  == Tok("add_label", "EAX", "", l, off, NoOpaque)
AsPutLabel(l)       == Tok("label", "", "", l, 0, NoOpaque)
AsRet               == Tok("ret", "", "", <<>>, 0, NoOpaque)
AsSymver(sym)       == Tok("symver", "", sym, <<>>, 0, NoOpaque)
\* opaqueConstant->compile(as, 0): the construct's own code, leaving EAX set
AsOpaque(opq)       == Tok("opaque", "EAX", "", <<>>, 0, opq)

PushOps == {"push_imm", "push_gv", "push_sym", "push_label", "push_reg",
            "pushf"}

----------------------------------------------------------------------------
(* Lowered ROP chain: ROPChainPushInst and its subclasses *)

PushInst(kind, value, ref, label, opq) ==
  [kind |-> kind, value |-> value, ref |-> ref, label |-> label,
   opaqueConstant |-> opq]

\* uint32_t diff = value - opaque
PushImmDiff_wrong(value, opaque) == Sub32(opaque, value)
PushImmDiff(value, opaque) == Sub32(value, opaque)

\* PUSH_IMM::compile
CompilePushImm(p) ==
  IF p.opaqueConstant.present
  THEN <<AsOpaque(p.opaqueConstant),
         AsAddImm(PushImmDiff(p.value, p.opaqueConstant.outputs[1])),
         AsPushReg("EAX")>>
  ELSE <<AsPushImm(p.value)>>

\* PUSH_GV::compile
CompilePushGV(p) ==
  IF p.opaqueConstant.present
  THEN <<AsOpaque(p.opaqueConstant),
         AsAddGV(p.ref, Sub32(p.value, p.opaqueConstant.outputs[1])),
         AsPushReg("EAX")>>
  ELSE <<AsPushGV(p.ref, p.value)>>

\* PUSH_GADGET::compile
CompilePushGadget(p) ==
  IF p.opaqueConstant.present
  THEN <<AsOpaque(p.opaqueConstant), AsAddSym(p.ref), AsPushReg("EAX")>>
  ELSE <<AsPushSym(p.ref, p.value)>>

\* PUSH_LABEL::compile
CompilePushLabel(p) ==
  IF p.opaqueConstant.present
  THEN <<AsOpaque(p.opaqueConstant),
         AsAddLabel(p.label, Neg32(p.opaqueConstant.outputs[1])),
         AsPushReg("EAX")>>
  ELSE <<AsPushLabel(p.label)>>

\* PUSH_ESP::compile
CompilePushEsp(p) == <<AsPushReg("ESP")>>

\* PUSH_EFLAGS::compile
CompilePushEflags(p) == <<AsPushf>>

\* virtual dispatch of ROPChainPushInst::compile
Compile(p) ==
  CASE p.kind = "PUSH_IMM"    -> CompilePushImm(p)
    [] p.kind = "PUSH_GV"     -> CompilePushGV(p)
    [] p.kind = "PUSH_GADGET" -> CompilePushGadget(p)
    [] p.kind = "PUSH_LABEL"  -> CompilePushLabel(p)
    [] p.kind = "PUSH_ESP"    -> CompilePushEsp(p)
    [] p.kind = "PUSH_EFLAGS" -> CompilePushEflags(p)

RECURSIVE CompileAll_reversed(_)
CompileAll_reversed(pushchain) ==
  IF pushchain = <<>> THEN <<>>
  ELSE CompileAll_reversed(Tail(pushchain)) \o Compile(Head(pushchain))
RECURSIVE CompileAll(_)
CompileAll(pushchain) ==
  IF pushchain = <<>> THEN <<>>
  ELSE Compile(Head(pushchain)) \o CompileAll(Tail(pushchain))

----------------------------------------------------------------------------
(* ROPfuscatorCore::insertROPChain: lowering of the chain elements *)

\* generateChainLabels: '$' is replaced in chainLabel after resumeLabel
\* has been formatted from it
generateChainLabels(funcName, id) ==
  LET chainLabel == funcName \o <<"_chain_", ToString(id)>>
      resumeLabel == <<"resume_">> \o chainLabel
  IN [chainLabel |-> [i \in 1..Len(chainLabel) |->
                        IF chainLabel[i] = "$" THEN "_" ELSE chainLabel[i]],
      resumeLabel |-> resumeLabel]

\* as.label(): a fresh anonymous label, the k-th one created by the call
\* for chain id of function funcName
TmpLabel(funcName, id, k) == <<".Ltmp">> \o funcName \o <<ToString(id), ToString(k)>>

\* what the random engine and the opaque-construct factory hand out while
\* one element is lowered: the anchor symbol, the sampled positions of the
\* gadget's address list, the opaque output value and its clobbered registers
Draw(sym, pos, o, clob) == [sym |-> sym, pos |-> pos, o |-> o, clob |-> clob]

\* num_branches (lines 375-378)
NumBranches_one(param, addresses) == 1
NumBranches(param, addresses) ==
  IF param.opaqueBranchDivergenceEnabled
  THEN Min(param.opaqueBranchDivergenceMaxBranches, Len(addresses))
  ELSE 1

\* the selections std::sample may make: n positions of the population (all
\* of it when n exceeds its size), kept in their original order
SamplePositions(addresses, n) ==
  {P \in SUBSET (1..Len(addresses)) :
     Cardinality(P) = Min(n, Len(addresses))}

RECURSIVE SortedNat(_)
SortedNat(P) ==
  IF P = {} THEN <<>>
  ELSE LET m == CHOOSE x \in P : \A y \in P : x <= y
       IN <<m>> \o SortedNat(P \ {m})

\* offsets: the sampled addresses, each made relative to the anchor
SampledOffsets_firstAnchored(addresses, pos, symAddress) ==
  LET order == SortedNat(pos)
  IN [i \in 1..Len(order) |->
        IF i = 1 THEN Sub32(addresses[order[i]], symAddress)
        ELSE addresses[order[i]]]
SampledOffsets(addresses, pos, symAddress) ==
  LET order == SortedNat(pos)
  IN [i \in 1..Len(order) |-> Sub32(addresses[order[i]], symAddress)]

\* !sym->isUsed && sym->Version != "Base"  (line 391)
NeedsSymver_noUsedCheck(sym, used) == SymbolTable[sym].Version # "Base"
NeedsSymver(sym, used) ==
  sym \notin used /\ SymbolTable[sym].Version # "Base"

\* state of the lowering loop (lines 288-292, 326)
LowerInit(used) ==
  [pushchain |-> <<>>, espOffsetMap |-> <<>>, espoffset |-> 0,
   versionedSymbols |-> <<>>, isUsed |-> used,
   resumeLabelRequired |-> FALSE, putLabels |-> <<>>, addedSuccs |-> <<>>,
   samples |-> <<>>, fatal |-> FALSE, ub |-> FALSE]

OpaqueIf(cond, d) ==
  IF cond THEN createOpaqueConstant32(d.o, d.clob) ELSE NoOpaque

\* case IMM_VALUE (lines 347-356)
LowerImmValue_branchSwitch(elem, st, ctx, d) ==
  [st EXCEPT !.pushchain = Append(@,
     PushInst("PUSH_IMM", elem.value, "", <<>>,
       OpaqueIf(ctx.param.opaquePredicateEnabled
                /\ ctx.param.obfuscateBranchTarget, d)))]
LowerImmValue(elem, st, ctx, d) ==
  [st EXCEPT !.pushchain = Append(@,
     PushInst("PUSH_IMM", elem.value, "", <<>>,
       OpaqueIf(ctx.param.opaquePredicateEnabled
                /\ ctx.param.obfuscateImmediateOperand, d)))]

\* case IMM_GLOBAL (lines 358-367)
LowerImmGlobal(elem, st, ctx, d) ==
  [st EXCEPT !.pushchain = Append(@,
     PushInst("PUSH_GV", elem.value, elem.global, <<>>,
       OpaqueIf(ctx.param.opaquePredicateEnabled
                /\ ctx.param.obfuscateImmediateOperand, d)))]

\* case GADGET (lines 369-417); offsets[0] of an empty vector is an
\* arbitrary word (d.o), flagged in ub
LowerGadget(elem, st, ctx, d) ==
  LET addresses == GadgetAddresses[elem.microgadget]
      num_branches == NumBranches(ctx.param, addresses)
      offsets == SampledOffsets(addresses, d.pos, SymbolTable[d.sym].Address)
      versioned == NeedsSymver(d.sym, st.isUsed)
      base == IF num_branches > 1
              THEN createBranchingOpaqueConstant32(d.o, Len(offsets), d.clob)
              ELSE createOpaqueConstant32(d.o, d.clob)
      opq == IF ctx.param.opaquePredicateEnabled
             THEN composeAdjustor(base, offsets) ELSE NoOpaque
  IN [st EXCEPT
        !.versionedSymbols = IF versioned THEN Append(@, d.sym) ELSE @,
        !.isUsed = IF versioned THEN @ \cup {d.sym} ELSE @,
        !.samples = Append(@, [microgadget |-> elem.microgadget,
                               num_branches |-> num_branches,
                               pos |-> d.pos, offsets |-> offsets,
                               sym |-> d.sym]),
        !.ub = @ \/ offsets = <<>>,
        !.pushchain = Append(@,
           PushInst("PUSH_GADGET",
                    IF offsets = <<>> THEN d.o ELSE offsets[1],
                    d.sym, <<>>, opq))]

\* case JMP_BLOCK (lines 419-432)
LowerJmpBlock(elem, st, ctx, d) ==
  LET targetLabel == TmpLabel(ctx.funcName, ctx.id, 2 + Len(st.addedSuccs))
  IN [st EXCEPT
        !.addedSuccs = Append(@, elem.jmptarget),
        !.putLabels = Append(@, [block |-> elem.jmptarget,
                                 label |-> targetLabel]),
        !.pushchain = Append(@,
           PushInst("PUSH_LABEL", 0, "", targetLabel,
             OpaqueIf(ctx.param.opaquePredicateEnabled
                      /\ ctx.param.obfuscateBranchTarget, d)))]

\* case JMP_FALLTHROUGH (lines 434-465); a null targetLabel is <<>>
LowerJmpFallthrough_alwaysResume(elem, st, ctx, d) ==
  [st EXCEPT
     !.resumeLabelRequired = TRUE,
     !.pushchain = Append(@,
        PushInst("PUSH_LABEL", 0, "", ctx.asResumeLabel,
          OpaqueIf(ctx.param.opaquePredicateEnabled
                   /\ ctx.param.obfuscateBranchTarget, d)))]
LowerJmpFallthrough(elem, st, ctx, d) ==
  LET found == ctx.isLastInstrInBlock /\ ctx.hasLayoutSucc
      targetLabel == IF ctx.isLastInstrInBlock
                     THEN (IF found THEN ctx.asResumeLabel ELSE <<>>)
                     ELSE ctx.asResumeLabel
  IN [st EXCEPT
        !.putLabels = IF found
                      THEN Append(@, [block |-> "layout_successor",
                                      label |-> targetLabel])
                      ELSE @,
        !.resumeLabelRequired = IF ctx.isLastInstrInBlock THEN @ ELSE TRUE,
        !.pushchain = Append(@,
           IF targetLabel # <<>>
           THEN PushInst("PUSH_LABEL", 0, "", targetLabel,
                  OpaqueIf(ctx.param.opaquePredicateEnabled
                           /\ ctx.param.obfuscateBranchTarget, d))
           ELSE PushInst("PUSH_IMM", 0, "", <<>>, NoOpaque))]

\* case ESP_PUSH (lines 467-473)
LowerEspPush_noRecord(elem, st, ctx, d) ==
  [st EXCEPT
     !.pushchain = Append(@, PushInst("PUSH_ESP", 0, "", <<>>, NoOpaque))]
LowerEspPush(elem, st, ctx, d) ==
  [st EXCEPT
     !.pushchain = Append(@, PushInst("PUSH_ESP", 0, "", <<>>, NoOpaque)),
     !.espOffsetMap = [k \in (DOMAIN @) \cup {elem.esp_id} |->
                         IF k = elem.esp_id THEN st.espoffset ELSE @[k]]]

\* case ESP_OFFSET (lines 475-486): exit(1) when the id was not recorded
LowerEspOffset_noCheck(elem, st, ctx, d) ==
  [st EXCEPT !.pushchain = Append(@,
     PushInst("PUSH_IMM",
              IF elem.esp_id \in DOMAIN st.espOffsetMap
              THEN elem.value - st.espOffsetMap[elem.esp_id] ELSE elem.value,
              "", <<>>, NoOpaque))]
LowerEspOffset(elem, st, ctx, d) ==
  IF elem.esp_id \notin DOMAIN st.espOffsetMap
  THEN [st EXCEPT !.fatal = TRUE]
  ELSE [st EXCEPT !.pushchain = Append(@,
          PushInst("PUSH_IMM", elem.value - st.espOffsetMap[elem.esp_id],
                   "", <<>>, NoOpaque))]

\* the switch on elem->type, then espoffset -= 4 (lines 345-489)
LowerElem(elem, st, ctx, d) ==
  LET st1 ==
        CASE elem.type = "IMM_VALUE"       -> LowerImmValue(elem, st, ctx, d)
          [] elem.type = "IMM_GLOBAL"      -> LowerImmGlobal(elem, st, ctx, d)
          [] elem.type = "GADGET"          -> LowerGadget(elem, st, ctx, d)
          [] elem.type = "JMP_BLOCK"       -> LowerJmpBlock(elem, st, ctx, d)
          [] elem.type = "JMP_FALLTHROUGH" -> LowerJmpFallthrough(elem, st, ctx, d)
          [] elem.type = "ESP_PUSH"        -> LowerEspPush(elem, st, ctx, d)
          [] elem.type = "ESP_OFFSET"      -> LowerEspOffset(elem, st, ctx, d)
  IN IF st1.fatal THEN st1 ELSE [st1 EXCEPT !.espoffset = @ - 4]

\* for (auto elem = chain.rbegin(); elem != chain.rend(); ++elem): element
\* i is lowered with draw i; nothing is lowered after exit(1)
RECURSIVE LowerFrom_forward(_, _, _, _, _)
LowerFrom_forward(elems, i, st, ctx, draws) ==
  IF i = 0 \/ st.fatal THEN st
  ELSE LowerFrom_forward(elems, i - 1,
                         LowerElem(elems[Len(elems) + 1 - i], st, ctx,
                                   draws[Len(elems) + 1 - i]),
                         ctx, draws)
RECURSIVE LowerFrom(_, _, _, _, _)
LowerFrom(elems, i, st, ctx, draws) ==
  IF i = 0 \/ st.fatal THEN st
  ELSE LowerFrom(elems, i - 1, LowerElem(elems[i], st, ctx, draws[i]),
                 ctx, draws)

----------------------------------------------------------------------------
(* ROPfuscatorCore::insertROPChain: the whole call *)

\* chain.emplace_back(createJmpFallthrough()) unless the chain jumps
\* (lines 306-311)
AppendFallthrough_never(chain) == chain
AppendFallthrough(chain) ==
  IF chain.hasUnconditionalJump \/ chain.hasConditionalJump
  THEN chain
  ELSE [chain EXCEPT !.chain = Append(@, JmpFallthrough)]

\* asChainLabel, asResumeLabel (lines 313-323)
ChainLabels(useChainLabel, funcName, id) ==
  IF useChainLabel
  THEN LET g == generateChainLabels(funcName, id)
       IN [asChainLabel |-> g.chainLabel, asResumeLabel |-> g.resumeLabel]
  ELSE [asChainLabel |-> TmpLabel(funcName, id, 0),
        asResumeLabel |-> TmpLabel(funcName, id, 1)]

\* the SAVE_AFTER_EXEC block (lines 328-341)
PushEflagsFirst_noOffset(st, flagSave) ==
  IF flagSave = "SAVE_AFTER_EXEC"
  THEN [st EXCEPT
          !.pushchain = Append(@, PushInst("PUSH_EFLAGS", 0, "", <<>>, NoOpaque))]
  ELSE st
PushEflagsFirst(st, flagSave) ==
  IF flagSave = "SAVE_AFTER_EXEC"
  THEN [st EXCEPT
          !.pushchain = Append(@, PushInst("PUSH_EFLAGS", 0, "", <<>>, NoOpaque)),
          !.espoffset = @ - 4]
  ELSE st

\* savedRegs (lines 507-522)
ClobberedRegs(pushchain) ==
  UNION {pushchain[i].opaqueConstant.clobbered : i \in 1..Len(pushchain)}

SavedRegs_keepFlags(pushchain, param, flagSave) ==
  LET clobbered == IF param.opaquePredicateEnabled
                   THEN ClobberedRegs(pushchain) ELSE {}
  IN IF flagSave = "SAVE_BEFORE_EXEC"
     THEN clobbered \cup {"EFLAGS"}
     ELSE clobbered
SavedRegs(pushchain, param, flagSave) ==
  LET clobbered == IF param.opaquePredicateEnabled
                   THEN ClobberedRegs(pushchain) ELSE {}
  IN IF flagSave = "SAVE_BEFORE_EXEC"
     THEN clobbered \cup {"EFLAGS"}
     ELSE clobbered \ {"EFLAGS"}

SaveReg(r) == IF r = "EFLAGS" THEN AsPushf ELSE AsPushReg(r)
RestoreReg_popOnly(r) == AsPopReg(r)
RestoreReg(r) == IF r = "EFLAGS" THEN AsPopf ELSE AsPopReg(r)

\* 4 * savedRegs.size() - espoffset  (line 537)
PrologueBackOffset_wrong(n, espoffset) == 4 * n + espoffset
PrologueBackOffset(n, espoffset) == 4 * n - espoffset

\* save registers on top of the stack the chain will occupy (lines 523-538)
Prologue_noReserve(regs, espoffset) ==
  IF regs = <<>> THEN <<>>
  ELSE [i \in 1..Len(regs) |-> SaveReg(regs[i])]
       \o <<AsLeaEsp(4 * Len(regs))>>
Prologue(regs, espoffset) ==
  IF regs = <<>> THEN <<>>
  ELSE <<AsLeaEsp(espoffset)>>
       \o [i \in 1..Len(regs) |-> SaveReg(regs[i])]
       \o <<AsLeaEsp(PrologueBackOffset(Len(regs), espoffset))>>

\* restore registers (lines 550-561)
Epilogue_sameOrder(regs) ==
  IF regs = <<>> THEN <<>>
  ELSE <<AsLeaEsp(-4 * Len(regs))>>
       \o [i \in 1..Len(regs) |-> RestoreReg(regs[i])]
Epilogue(regs) ==
  IF regs = <<>> THEN <<>>
  ELSE <<AsLeaEsp(-4 * Len(regs))>>
       \o [i \in 1..Len(regs) |-> RestoreReg(Reverse(regs)[i])]

\* symbol version directives (lines 494-504)
SymverDirectives(versionedSymbols) ==
  [i \in 1..Len(versionedSymbols) |-> AsSymver(versionedSymbols[i])]

\* what follows the chain: ret, the resume label, popf (lines 563-577)
RetAndResume_popfFirst(resumeLabelRequired, asResumeLabel, flagSave) ==
  (IF flagSave = "SAVE_AFTER_EXEC" THEN <<AsPopf>> ELSE <<>>)
  \o <<AsRet>>
  \o (IF resumeLabelRequired THEN <<AsPutLabel(asResumeLabel)>> ELSE <<>>)
RetAndResume_alwaysLabel(resumeLabelRequired, asResumeLabel, flagSave) ==
  <<AsRet, AsPutLabel(asResumeLabel)>>
  \o (IF flagSave = "SAVE_AFTER_EXEC" THEN <<AsPopf>> ELSE <<>>)
RetAndResume(resumeLabelRequired, asResumeLabel, flagSave) ==
  <<AsRet>>
  \o (IF resumeLabelRequired THEN <<AsPutLabel(asResumeLabel)>> ELSE <<>>)
  \o (IF flagSave = "SAVE_AFTER_EXEC" THEN <<AsPopf>> ELSE <<>>)

\* the emitted sequence, in emission order (lines 492-577)
EmitAll_restoreFirst(st, labels, param, flagSave) ==
  LET regs == SortedRegs(SavedRegs(st.pushchain, param, flagSave))
  IN SymverDirectives(st.versionedSymbols)
     \o Prologue(regs, st.espoffset)
     \o <<AsPutLabel(labels.asChainLabel)>>
     \o Epilogue(regs)
     \o CompileAll(st.pushchain)
     \o RetAndResume(st.resumeLabelRequired, labels.asResumeLabel, flagSave)
EmitAll(st, labels, param, flagSave) ==
  LET regs == SortedRegs(SavedRegs(st.pushchain, param, flagSave))
  IN SymverDirectives(st.versionedSymbols)
     \o Prologue(regs, st.espoffset)
     \o <<AsPutLabel(labels.asChainLabel)>>
     \o CompileAll(st.pushchain)
     \o Epilogue(regs)
     \o RetAndResume(st.resumeLabelRequired, labels.asResumeLabel, flagSave)

\* insertROPChain(chain, MBB, MI, chainID, param): isLastNode is
\* MI.getNextNode() == nullptr, hasLayoutSucc whether a successor of MBB is
\* its layout successor, used the symbols with isUsed set, draws what the
\* random engine and the opaque factory hand out per element
InsertROPChain(chain, isLastNode, hasLayoutSucc, funcName, id, useChainLabel, param, used, draws) ==
  LET chain1 == AppendFallthrough(chain)
      labels == ChainLabels(useChainLabel, funcName, id)
      st0 == PushEflagsFirst(LowerInit(used), chain1.flagSave)
      ctx == [param |-> param, funcName |-> funcName, id |-> id,
              isLastInstrInBlock |->
                 isLastNode /\ chain1.flagSave # "SAVE_AFTER_EXEC",
              hasLayoutSucc |-> hasLayoutSucc,
              asResumeLabel |-> labels.asResumeLabel]
      st == LowerFrom(chain1.chain, Len(chain1.chain), st0, ctx, draws)
      regs == SortedRegs(SavedRegs(st.pushchain, param, chain1.flagSave))
  IN [fatal |-> st.fatal,
      ub |-> st.ub,
      chain |-> chain1,
      pushchain |-> st.pushchain,
      espoffset |-> st.espoffset,
      savedRegs |-> regs,
      samples |-> st.samples,
      versionedSymbols |-> st.versionedSymbols,
      isUsed |-> st.isUsed,
      resumeLabelRequired |-> st.resumeLabelRequired,
      putLabels |-> st.putLabels,
      addedSuccs |-> st.addedSuccs,
      asChainLabel |-> labels.asChainLabel,
      asResumeLabel |-> labels.asResumeLabel,
      emitted |-> IF st.fatal THEN <<>>
                  ELSE EmitAll(st, labels, param, chain1.flagSave)]

----------------------------------------------------------------------------
(* Run-time effect of the emitted code on the stack pointer *)

\* ESP after one emitted instruction
StepEsp(tok, esp) ==
  CASE tok.op \in PushOps             -> Sub32(esp, 4)
    [] tok.op \in {"pop_reg", "popf"} -> Add32(esp, 4)
    [] tok.op = "lea_esp"             -> Add32(esp, tok.imm)
    [] OTHER                          -> esp

\* ESP when control reaches the first ret of the emitted sequence
RECURSIVE EspAtRet(_, _, _)
EspAtRet(emitted, i, esp) ==
  IF i > Len(emitted) \/ emitted[i].op = "ret" THEN esp
  ELSE EspAtRet(emitted, i + 1, StepEsp(emitted[i], esp))

\* number of items of a sequence that satisfy Test
RECURSIVE CountOps(_, _)
CountOps(toks, ops) ==
  IF toks = <<>> THEN 0
  ELSE (IF Head(toks).op \in ops THEN 1 ELSE 0) + CountOps(Tail(toks), ops)

\* index of the first item with the given op, 0 when there is none
FirstIndex(toks, op) ==
  IF \E i \in 1..Len(toks) : toks[i].op = op
  THEN CHOOSE i \in 1..Len(toks) :
         toks[i].op = op /\ \A j \in 1..(i - 1) : toks[j].op # op
  ELSE 0

----------------------------------------------------------------------------
(* What the random engine and the opaque factory may hand out *)

NoDraw == Draw("", {}, 0, {})

\* registers clobbered by the constructs of an algorithm
ClobberSets(algo) ==
  IF algo = "MOV" THEN {{"EAX"}} ELSE {{"EAX", "EDX", "EFLAGS"}}

\* output values of a 32-bit opaque constant
OpaqueOutputs == {7}

OpaqueDraws(param) ==
  {Draw("", {}, o, c) : o \in OpaqueOutputs,
                        c \in ClobberSets(param.opaqueConstantAlgorithm)}

\* the draws possible while elem is lowered under param, anchors from syms
DrawsFor(elem, param, syms) ==
  CASE elem.type = "GADGET" ->
         LET addresses == GadgetAddresses[elem.microgadget]
             n == NumBranches(param, addresses)
         IN {Draw(sy, P, d.o, d.clob) :
               sy \in syms, P \in SamplePositions(addresses, n),
               d \in IF param.opaquePredicateEnabled \/ n = 0
                     THEN OpaqueDraws(param) ELSE {NoDraw}}
    [] elem.type \in {"IMM_VALUE", "IMM_GLOBAL"} ->
         IF param.opaquePredicateEnabled /\ param.obfuscateImmediateOperand
         THEN OpaqueDraws(param) ELSE {NoDraw}
    [] elem.type \in {"JMP_BLOCK", "JMP_FALLTHROUGH"} ->
         IF param.opaquePredicateEnabled /\ param.obfuscateBranchTarget
         THEN OpaqueDraws(param) ELSE {NoDraw}
    [] OTHER -> {NoDraw}

\* one draw per element of the chain
RECURSIVE DrawSeqs(_, _, _)
DrawSeqs(elems, param, syms) ==
  IF elems = <<>> THEN {<<>>}
  ELSE {<<d>> \o rest : d \in DrawsFor(Head(elems), param, syms),
                        rest \in DrawSeqs(Tail(elems), param, syms)}

----------------------------------------------------------------------------
(* ROPChain::valid, canMerge, merge, clear (ROPEngine.h) *)

IsJump(c) == c.hasConditionalJump \/ c.hasUnconditionalJump

\* a pending chain exists
valid(c) == c.chain # <<>>

\* the chain is emptied
clear(c) == EmptyChain

\* two chains are mergeable iff neither contains a jump
canMerge(c, other) == ~IsJump(c) /\ ~IsJump(other)

\* NotSaved < SaveBeforeExec < SaveAfterExec
FlagRank(m) ==
  CASE m = "NOT_SAVED" -> 0 [] m = "SAVE_BEFORE_EXEC" -> 1
    [] m = "SAVE_AFTER_EXEC" -> 2

\* concatenate the element lists, take the higher flag-save mode
merge(c, other) ==
  [c EXCEPT !.chain = @ \o other.chain,
            !.flagSave = IF FlagRank(other.flagSave) > FlagRank(@)
                         THEN other.flagSave ELSE @]

----------------------------------------------------------------------------
(* ROPEngine::ropify and the machine function, as the driver sees them *)

Opcodes == {"MOV32ri", "MOV32rm", "JMP_1", "JCC_1", "CALLpcrel32"}

FuncNames == {<<"f", "$", "1">>, <<"g">>}

Instr(id, isDebug) == [id |-> id, isDebug |-> isDebug]

Ropified(opcode, sfs, status, chain) ==
  [opcode |-> opcode, shouldFlagSaved |-> sfs, status |-> status,
   chain |-> chain]

\* an instruction (its opcode, whether the flags are live at it) and what
\* the ropifier answers for it; the immediate i tells the chains apart
RopifyResults(i) ==
  { Ropified("MOV32ri", FALSE, "OK",
             Chain(<<Gadget("xchg"), ImmValue(i)>>, "NOT_SAVED", FALSE, FALSE)),
    Ropified("MOV32rm", TRUE, "OK",
             Chain(<<ImmValue(i)>>, "SAVE_AFTER_EXEC", FALSE, FALSE)),
    Ropified("JMP_1", FALSE, "OK",
             Chain(<<ImmValue(i), JmpBlock("bb2")>>, "NOT_SAVED", FALSE, TRUE)),
    Ropified("JCC_1", FALSE, "OK",
             Chain(<<ImmValue(i), JmpBlock("bb2")>>, "SAVE_AFTER_EXEC", TRUE, FALSE)),
    Ropified("JCC_1", TRUE, "OK",
             Chain(<<ImmValue(i), JmpBlock("bb2")>>, "SAVE_AFTER_EXEC", TRUE, TRUE)),
    Ropified("CALLpcrel32", FALSE, "ERR_NOT_IMPLEMENTED", EmptyChain),
    Ropified("JCC_1", TRUE, "ERR_NO_GADGETS_AVAILABLE",
             Chain(<<>>, "SAVE_AFTER_EXEC", TRUE, FALSE)) }

\* ROPfuscatorConfig: the algorithm names of the configuration file. A
\* string is the sequence of its characters.
UpperCase == <<"A", "B", "C", "D", "E", "F", "G", "H", "I", "J", "K", "L", "M",
               "N", "O", "P", "Q", "R", "S", "T", "U", "V", "W", "X", "Y", "Z">>

LowerCase == <<"a", "b", "c", "d", "e", "f", "g", "h", "i", "j", "k", "l", "m",
               "n", "o", "p", "q", "r", "s", "t", "u", "v", "w", "x", "y", "z">>

\* std::tolower in the "C" locale
tolower(c) ==
  IF \E i \in 1..Len(UpperCase) : UpperCase[i] = c
  THEN LowerCase[CHOOSE i \in 1..Len(UpperCase) : UpperCase[i] = c]
  ELSE c

\* std::transform(..., tolower) over the string (lines 248-250, 267-269)
lowerConfigString(configString) ==
  [i \in 1..Len(configString) |-> tolower(configString[i])]

\* ROPfuscatorConfig::parseOpaquePredicateAlgorithm (lines 244-261); the
\* empty string is <<>>
parseOpaquePredicateAlgorithm_caseSensitive(configString) ==
  IF configString = <<"m", "o", "v">> THEN <<"MOV">>
  ELSE IF configString = <<"m", "u", "l", "t", "c", "o", "m", "p">>
  THEN <<"MULTCOMP">>
  ELSE <<>>
parseOpaquePredicateAlgorithm(configString) ==
  IF lowerConfigString(configString) = <<"m", "o", "v">> THEN <<"MOV">>
  ELSE IF lowerConfigString(configString)
          = <<"m", "u", "l", "t", "c", "o", "m", "p">>
  THEN <<"MULTCOMP">>
  ELSE <<>>

\* ROPfuscatorConfig::parseBranchDivergenceAlgorithm (lines 263-284)
parseBranchDivergenceAlgorithm(configString) ==
  IF lowerConfigString(configString) = <<"a", "d", "d", "r", "e", "g">>
  THEN <<"ADDREG_MOV">>
  ELSE IF lowerConfigString(configString) = <<"r", "d", "t", "s", "c">>
  THEN <<"RDTSC_MOV">>
  ELSE IF lowerConfigString(configString)
          = <<"n", "e", "g", "a", "t", "i", "v", "e", "_", "s", "t", "a",
              "c", "k">>
  THEN <<"NEGSTK_MOV">>
  ELSE <<>>

\* a key of [functions.default]: absent, or present with a string value
NoKey == [present |-> FALSE, value |-> <<>>]

Key(value) == [present |-> TRUE, value |-> value]

\* ObfuscationParameter(): the algorithms of a fresh parameter
\* (lines 50-55), no configuration file read yet
ConfigConstructed ==
  [phase |-> "constructed", op_algo |-> NoKey, branch_div_algo |-> NoKey,
   opaqueConstantAlgorithm |-> <<"MOV">>,
   opaqueBranchDivergenceAlgorithm |-> <<"ADDREG_MOV">>]

\* loadFromFile on a file whose [functions.default] has the two algorithm
\* keys as given (lines 93-242): the defaults are set again, then each
\* present key is parsed and assigned, or the process exits
loadFromFile(op_algo, branch_div_algo) ==
  LET parsed_op_algo == parseOpaquePredicateAlgorithm(op_algo.value)
      parsed_branch_div_algo ==
        parseBranchDivergenceAlgorithm(branch_div_algo.value)
      fresh == [ConfigConstructed EXCEPT !.op_algo = op_algo,
                                         !.branch_div_algo = branch_div_algo]
      afterOp == IF op_algo.present
                 THEN [fresh EXCEPT !.opaqueConstantAlgorithm = parsed_op_algo]
                 ELSE fresh
  IN IF op_algo.present /\ parsed_op_algo = <<>>
     THEN [fresh EXCEPT !.phase = "exit"]
     ELSE IF branch_div_algo.present /\ parsed_branch_div_algo = <<>>
     THEN [afterOp EXCEPT !.phase = "exit"]
     ELSE [afterOp EXCEPT
             !.phase = "loaded",
             !.opaqueBranchDivergenceAlgorithm =
                IF branch_div_algo.present THEN parsed_branch_div_algo ELSE @]

\* ROPfuscatorConfig: defaultParameter and functionsParameter
defaultParameter == Param(TRUE, FALSE, FALSE, FALSE, FALSE, 32, "MOV")

functionsParameter ==
  [n \in {<<"g">>} |-> Param(FALSE, FALSE, FALSE, FALSE, FALSE, 32, "MOV")]

\* ROPfuscatorConfig::getParameter
getParameter(funcname) ==
  IF funcname \in DOMAIN functionsParameter
  THEN functionsParameter[funcname]
  ELSE defaultParameter

\* anchors the oracle hands out in the driver specification
DriverSyms == {"fopen"}

----------------------------------------------------------------------------
(* ROPfuscatorCore::obfuscateFunction *)

\* if (!param.obfuscationEnabled) return;  (lines 603-605)
SkipFunction_never(param) == FALSE
SkipFunction(param) == ~param.obfuscationEnabled

\* isJump && result.flagSave == SAVE_AFTER_EXEC  (lines 657-658)
ForceUnsupported_never(result, shouldFlagSaved) == FALSE
ForceUnsupported_withFlagTest(result, shouldFlagSaved) ==
  shouldFlagSaved /\ IsJump(result) /\ result.flagSave = "SAVE_AFTER_EXEC"
ForceUnsupported(result, shouldFlagSaved) ==
  IsJump(result) /\ result.flagSave = "SAVE_AFTER_EXEC"

\* the status counted and acted on (lines 654-662)
FinalStatus(status, result, shouldFlagSaved) ==
  IF ForceUnsupported(result, shouldFlagSaved)
  THEN "ERR_UNSUPPORTED" ELSE status

\* instr_stat[MI.getOpcode()][status]++  (line 665)
CountStatus_none(stat, opcode, status) == stat
CountStatus(stat, opcode, status) ==
  [stat EXCEPT ![opcode][status] = @ + 1]

\* instrToDelete.push_back(&MI) is reached only past the error branch
\* (lines 668-680)
KeepsInstruction_never(status) == FALSE
KeepsInstruction(status) == status # "OK"

\* the pending chain after an OK instruction (lines 682-690)
NextChain0_alwaysMerge(c0, result) ==
  IF valid(c0) THEN merge(c0, result) ELSE result
NextChain0_dropPending(c0, result) == result
NextChain0_dropResult(c0, result) ==
  IF canMerge(c0, result) THEN c0 ELSE result
NextChain0_swapped(c0, result) ==
  IF canMerge(c0, result) THEN merge(result, c0) ELSE result
NextChain0(c0, result) ==
  IF canMerge(c0, result) THEN merge(c0, result) ELSE result

\* whether the pending chain is flushed before an OK instruction's chain
\* is taken (lines 682-688)
FlushBeforeTake_never(c0, result) == FALSE
FlushBeforeTake(c0, result) == ~canMerge(c0, result) /\ valid(c0)


NoEmit == [valid |-> FALSE]

\* one call of insertROPChain from the driver: the pending chain c0 is
\* emitted at the instruction prevMI points to in block blk; the call is
\* logged
FlushChain(c0, blk, hasLayoutSucc, draws, pcNext) ==
  LET isLastNode == prevMI = Len(blk)
      out == InsertROPChain(c0, isLastNode, hasLayoutSucc, curFunc.name,
                            chainID, TRUE, curFunc.param, isUsed, draws)
  IN /\ calls' = Append(calls,
          [anchor |-> IF prevMI = 0 THEN 0 ELSE blk[prevMI].id,
           chainID |-> chainID, chain |-> c0, isLastNode |-> isLastNode,
           out |-> out])
     /\ isUsed' = out.isUsed
     /\ symverLog' = symverLog \o out.versionedSymbols
     /\ chainID' = chainID + 1
     /\ pc' = IF out.fatal THEN "fatal" ELSE pcNext

NoFlush(pcNext) ==
  /\ UNCHANGED <<calls, isUsed, symverLog, chainID>>
  /\ pc' = pcNext

FlushIf(cond, c0, blk, hasLayoutSucc, pcNext) ==
  IF cond
  THEN \E draws \in DrawSeqs(AppendFallthrough(c0).chain, curFunc.param,
                              DriverSyms) :
         FlushChain(c0, blk, hasLayoutSucc, draws, pcNext)
  ELSE NoFlush(pcNext)

\* entry of obfuscateFunction up to the loop over the blocks
\* (lines 580-615); calls, erased and hist describe the function at hand
ObfuscateFunction ==
  /\ pc = "idle"
  /\ \E name \in FuncNames :
       LET param == getParameter(name)
       IN /\ BA' = TRUE
          /\ curFunc' = [name |-> name, param |-> param]
          /\ IF ~TII /\ is64Bit
             THEN /\ pc' = "fatal"
                  /\ UNCHANGED <<TII, chainID, instrToDelete, succs, calls,
                                 erased, hist>>
             ELSE /\ TII' = TRUE
                  /\ IF SkipFunction(param)
                     THEN /\ pc' = "idle"
                          /\ UNCHANGED <<chainID, instrToDelete, succs, calls,
                                         erased, hist>>
                     ELSE /\ pc' = "blocks"
                          /\ chainID' = 0
                          /\ instrToDelete' = <<>>
                          /\ succs' = FALSE
                          /\ calls' = <<>>
                          /\ erased' = <<>>
                          /\ hist' = <<>>
  /\ UNCHANGED <<is64Bit, isUsed, instr_stat, MBB, it, chain0, prevMI,
                 nInstr, symverLog, lastEmit, pushDemo,
                 totals, mergeDemo, cfg>>

\* for (MachineBasicBlock &MBB : MF): the next block (lines 617-624); MBB
\* holds the instructions of the block up to the iterator, the rest of the
\* block is chosen as the iteration reaches it
BeginBlock ==
  /\ pc = "blocks"
  /\ MBB' = <<>>
  /\ chain0' = EmptyChain
  /\ prevMI' = 0
  /\ it' = 1
  /\ pc' = "iter"
  /\ UNCHANGED <<BA, TII, is64Bit, isUsed, instr_stat, curFunc, succs,
                 chainID, instrToDelete, calls, erased, hist, nInstr,
                 symverLog, lastEmit, pushDemo,
                 totals, mergeDemo, cfg>>

\* if (MI.isDebugInstr()) continue;  (lines 627-628)
SkipDebugInstr ==
  /\ pc = "iter"
  /\ nInstr < MaxInstrs
  /\ MBB' = Append(MBB, Instr(nInstr + 1, TRUE))
  /\ nInstr' = nInstr + 1
  /\ it' = it + 1
  /\ UNCHANGED <<pc, BA, TII, is64Bit, isUsed, instr_stat, curFunc,
                 succs, chain0, prevMI, chainID, instrToDelete, calls, erased,
                 hist, symverLog, lastEmit, pushDemo,
                 totals, mergeDemo, cfg>>

\* prevMI = &MI;  (line 691): cur is the position of MI in the block
NextPrevMI_stale(prev, cur) == prev
NextPrevMI(prev, cur) == cur

\* one iteration of the instruction loop on a real instruction
\* (lines 630-697)
ProcessInstr ==
  /\ pc = "iter"
  /\ nInstr < MaxInstrs
  /\ nInstr' = nInstr + 1
  /\ MBB' = Append(MBB, Instr(nInstr + 1, FALSE))
  /\ \E r \in RopifyResults(nInstr + 1) :
       LET status == FinalStatus(r.status, r.chain, r.shouldFlagSaved)
       IN /\ instr_stat' = CountStatus(instr_stat, r.opcode, status)
          /\ hist' = Append(hist,
               [id |-> nInstr + 1, opcode |-> r.opcode,
                shouldFlagSaved |-> r.shouldFlagSaved,
                ret |-> r.status, result |-> r.chain, status |-> status])
          /\ IF KeepsInstruction(status)
             THEN /\ FlushIf(valid(chain0), chain0, MBB', FALSE, "iter")
                  /\ chain0' = IF valid(chain0) THEN clear(chain0) ELSE chain0
                  /\ UNCHANGED <<instrToDelete, prevMI>>
             ELSE /\ instrToDelete' = Append(instrToDelete, it)
                  /\ FlushIf(FlushBeforeTake(chain0, r.chain), chain0, MBB',
                             FALSE, "iter")
                  /\ chain0' = NextChain0(chain0, r.chain)
                  /\ prevMI' = NextPrevMI(prevMI, it)
  /\ it' = it + 1
  /\ totals' = [totals EXCEPT !.processed = @ + 1]
  /\ UNCHANGED <<BA, TII, is64Bit, curFunc, succs, erased, lastEmit,
                 pushDemo, mergeDemo, cfg>>

\* for (auto &MI : instrToDelete) MI->eraseFromParent();  (lines 706-707):
\* the ids of the instructions erased, in the order of the list
EraseInstructions_keepLast(list, blk) ==
  [k \in 1..(Len(list) - 1) |-> blk[list[k]].id]
EraseInstructions(list, blk) ==
  [k \in 1..Len(list) |-> blk[list[k]].id]

\* after the instruction loop: flush, erase, clear (lines 699-709); succs
\* tells whether a successor of the block is its layout successor
EndBlock ==
  /\ pc = "iter"
  /\ \E s \in BOOLEAN :
       /\ succs' = s
       /\ FlushIf(valid(chain0), chain0, MBB, s, "blocks")
  /\ chain0' = IF valid(chain0) THEN clear(chain0) ELSE chain0
  /\ erased' = erased \o EraseInstructions(instrToDelete, MBB)
  /\ instrToDelete' = <<>>
  /\ totals' = [totals EXCEPT !.erased = @ + Len(instrToDelete)]
  /\ UNCHANGED <<BA, TII, is64Bit, instr_stat, curFunc, MBB, it,
                 prevMI, hist, nInstr, lastEmit, pushDemo, mergeDemo, cfg>>

\* the loop over the blocks ends: obfuscateFunction returns (lines 710-717)
EndFunction ==
  /\ pc = "blocks"
  /\ ~succs
  /\ pc' = "idle"
  /\ UNCHANGED <<BA, TII, is64Bit, isUsed, instr_stat, curFunc, MBB, succs,
                 it, chain0, prevMI, chainID, instrToDelete, calls, erased,
                 hist, nInstr, symverLog, lastEmit, pushDemo,
                 totals, mergeDemo, cfg>>

InitDriver ==
  /\ pc = "idle"
  /\ BA = FALSE
  /\ TII = FALSE
  /\ is64Bit \in BOOLEAN
  /\ isUsed = {}
  /\ instr_stat = [o \in Opcodes |-> [st \in Statuses |-> 0]]
  /\ curFunc = [name |-> <<>>, param |-> defaultParameter]
  /\ MBB = <<>>
  /\ succs = FALSE
  /\ it = 1
  /\ chain0 = EmptyChain
  /\ prevMI = 0
  /\ chainID = 0
  /\ instrToDelete = <<>>
  /\ calls = <<>>
  /\ erased = <<>>
  /\ hist = <<>>
  /\ nInstr = 0
  /\ symverLog = <<>>
  /\ lastEmit = NoEmit
  /\ pushDemo = [valid |-> FALSE]
  /\ totals = [processed |-> 0, erased |-> 0]
  /\ mergeDemo = [valid |-> FALSE]
  /\ cfg = ConfigConstructed

NextDriver ==
  \/ ObfuscateFunction
  \/ BeginBlock
  \/ SkipDebugInstr
  \/ ProcessInstr
  \/ EndBlock
  \/ EndFunction

\* the pass run over the functions of one module
SpecDriver == InitDriver /\ [][NextDriver]_vars

----------------------------------------------------------------------------
(* The emission engine on its own: insertROPChain called on chains of every
   element type, under several parameters *)

\* one call: the arguments of insertROPChain
EngineInput(chain, isLastNode, hasLayoutSucc, param) ==
  [chain |-> chain, isLastNode |-> isLastNode,
   hasLayoutSucc |-> hasLayoutSucc, funcName |-> <<"f", "$", "1">>, id |-> 0,
   useChainLabel |-> TRUE, param |-> param]

\* the chain elements the ropifier builds chains from
ElemAlphabet ==
  {ImmValue(5), ImmGlobal("gv", 8), Gadget("xchg"), JmpBlock("bb2"),
   JmpFallthrough, EspPush(1), EspPush(2), EspOffset(1, 12)}

ElemSeqs(n) == UNION {[1..len -> ElemAlphabet] : len \in 1..n}

\* flag-save mode and jump flags of the chains handed to the engine
ChainKinds ==
  {<<"NOT_SAVED", FALSE, FALSE>>, <<"NOT_SAVED", TRUE, FALSE>>,
   <<"NOT_SAVED", FALSE, TRUE>>, <<"SAVE_BEFORE_EXEC", FALSE, FALSE>>,
   <<"SAVE_AFTER_EXEC", FALSE, FALSE>>}

\* position of the anchor instruction: <<isLastNode, hasLayoutSucc>>
AnchorKinds == {<<FALSE, FALSE>>, <<TRUE, TRUE>>, <<TRUE, FALSE>>}

EngineParams ==
  {Param(TRUE, FALSE, FALSE, FALSE, FALSE, 32, "MOV"),
   Param(TRUE, TRUE, TRUE, TRUE, FALSE, 32, "MOV"),
   Param(TRUE, TRUE, TRUE, TRUE, FALSE, 32, "MULTCOMP"),
   Param(TRUE, TRUE, FALSE, FALSE, FALSE, 32, "MOV")}

EmitInputs ==
  {[in |-> EngineInput(Chain(e, k[1], k[2], k[3]), a[1], a[2], p),
    syms |-> {"fopen"}] :
     e \in ElemSeqs(MaxChainLen), k \in ChainKinds, a \in AnchorKinds,
     p \in EngineParams}

\* chains of gadgets, to watch the sampling and the anchors
SampleChains ==
  {<<Gadget("pop_eax")>>, <<Gadget("xchg")>>,
   <<Gadget("xchg"), Gadget("xchg")>>, <<Gadget("pop_eax"), Gadget("xchg")>>}

\* max-branches settings of the sampling specification
MaxBranchesSettings == {0, 1, 2, 32}

SampleParams ==
  {Param(TRUE, TRUE, FALSE, FALSE, FALSE, 32, "MOV"),
   Param(TRUE, FALSE, FALSE, FALSE, FALSE, 32, "MOV"),
   Param(TRUE, FALSE, FALSE, FALSE, TRUE, 2, "MOV")}
  \cup {Param(TRUE, TRUE, FALSE, FALSE, TRUE, m, "MOV") :
          m \in MaxBranchesSettings}

SampleInputs ==
  {[in |-> EngineInput(Chain(e, "NOT_SAVED", FALSE, TRUE), FALSE, FALSE, p),
    syms |-> SymbolNames] :
     e \in SampleChains, p \in SampleParams}

\* insertROPChain is called and runs to its end (lines 283-578)
EmitCall(Inputs) ==
  /\ pc = "idle"
  /\ \E x \in Inputs :
       \E draws \in DrawSeqs(AppendFallthrough(x.in.chain).chain,
                             x.in.param, x.syms) :
         LET out == InsertROPChain(x.in.chain, x.in.isLastNode,
                                   x.in.hasLayoutSucc, x.in.funcName, x.in.id,
                                   x.in.useChainLabel, x.in.param, isUsed,
                                   draws)
         IN /\ lastEmit' = [valid |-> TRUE, in |-> x.in, draws |-> draws,
                            usedBefore |-> isUsed, out |-> out]
            /\ isUsed' = out.isUsed
            /\ symverLog' = symverLog \o out.versionedSymbols
            /\ pc' = IF out.fatal THEN "fatal" ELSE "emitted"
  /\ UNCHANGED <<BA, TII, is64Bit, instr_stat, curFunc, MBB, succs, it,
                 chain0, prevMI, chainID, instrToDelete, calls, erased, hist,
                 nInstr, pushDemo,
                 totals, mergeDemo, cfg>>

\* the caller goes on after the call
EmitReturn ==
  /\ pc = "emitted"
  /\ pc' = "idle"
  /\ lastEmit' = NoEmit
  /\ UNCHANGED <<BA, TII, is64Bit, isUsed, instr_stat, curFunc, MBB, succs,
                 it, chain0, prevMI, chainID, instrToDelete, calls, erased,
                 hist, nInstr, symverLog, pushDemo,
                 totals, mergeDemo, cfg>>

InitEngine ==
  /\ InitDriver
  /\ is64Bit = FALSE

NextEmit ==
  \/ EmitCall(EmitInputs)
  \/ EmitReturn

SpecEmit == InitEngine /\ [][NextEmit]_vars

NextSample ==
  \/ EmitCall(SampleInputs)
  \/ EmitReturn

SpecSample == InitEngine /\ [][NextSample]_vars

\* chains with every element type, to watch which pushes get an opaque
\* constant
OpaqueChains ==
  {<<e>> : e \in ElemAlphabet \ {EspOffset(1, 12)}}
  \cup {<<EspOffset(1, 12), EspPush(1)>>, <<ImmValue(5), JmpBlock("bb2")>>,
        <<Gadget("pop_eax"), ImmGlobal("gv", 8)>>}

\* every combination of the four switches that decide on opaque constants
OpaqueSwitches ==
  {Param(TRUE, op, imm, br, div, 2, "MOV") : op, imm, br, div \in BOOLEAN}

OpaqueInputs ==
  {[in |-> EngineInput(Chain(e, k, FALSE, FALSE), a[1], a[2], p),
    syms |-> {"fopen"}] :
     e \in OpaqueChains, k \in {"NOT_SAVED", "SAVE_AFTER_EXEC"},
     a \in AnchorKinds, p \in OpaqueSwitches}

NextOpaque ==
  \/ EmitCall(OpaqueInputs)
  \/ EmitReturn

SpecOpaque == InitEngine /\ [][NextOpaque]_vars

----------------------------------------------------------------------------
(* PUSH_IMM::compile on its own, and what the compiled code pushes *)

\* the 32-bit word the compiled code of one push instruction pushes: EAX
\* follows the opaque construct and the adjusting add
RECURSIVE PushedWord(_, _, _)
PushedWord(toks, i, eax) ==
  IF i > Len(toks) THEN eax
  ELSE CASE toks[i].op = "opaque"   ->
              PushedWord(toks, i + 1,
                         toks[i].opq.outputs[Len(toks[i].opq.outputs)])
         [] toks[i].op = "add_imm"  ->
              PushedWord(toks, i + 1, Add32(eax, toks[i].imm))
         [] toks[i].op = "push_reg" -> eax
         [] toks[i].op = "push_imm" -> toks[i].imm
         [] OTHER                   -> PushedWord(toks, i + 1, eax)

\* immediates and opaque outputs, at and around the ends of the word range
PushValues == {0, 1, -1, 5, -5, 4096, MaxS32, MaxS32 - 1, MinS32, MinS32 + 1}

PushOpaques == {0, 1, -1, 7, -7, 65536, MaxS32, MaxS32 - 1, MinS32, MinS32 + 1}

\* a PUSH_IMM is compiled without and with an opaque constant
CompilePush ==
  /\ \E v \in PushValues, o \in PushOpaques :
       pushDemo' =
         [valid |-> TRUE, value |-> v, opaque |-> o,
          plain |-> CompilePushImm(PushInst("PUSH_IMM", v, "", <<>>, NoOpaque)),
          lowered |-> CompilePushImm(PushInst("PUSH_IMM", v, "", <<>>,
                         createOpaqueConstant32(o, {"EAX"})))]
  /\ UNCHANGED <<pc, BA, TII, is64Bit, isUsed, instr_stat, curFunc, MBB,
                 succs, it, chain0, prevMI, chainID, instrToDelete, calls,
                 erased, hist, nInstr, symverLog, lastEmit, totals, mergeDemo,
                 cfg>>

NextPush == CompilePush

SpecPush == InitEngine /\ [][NextPush]_vars

----------------------------------------------------------------------------
(* The driver's merging of ropifier results (chain0.merge(result)) on its
   own: three jump-free chains folded into the pending chain *)

\* elements of the chains merged
MergeElems == {ImmValue(1), Gadget("xchg")}

\* jump-free chains of every flag-save mode, the empty one included
MergeChains ==
  {Chain(e, m, FALSE, FALSE) :
     e \in {<<>>} \cup UNION {[1..n -> MergeElems] : n \in 1..MaxChainLen},
     m \in FlagSaveModes}

\* the pending chain after results a, b, c were taken in turn, and the
\* other groupings and orders of the same merges; one triple per run
MergeResults ==
  /\ ~mergeDemo.valid
  /\ \E a \in MergeChains, b \in MergeChains, c \in MergeChains :
       mergeDemo' =
         [valid |-> TRUE, a |-> a, b |-> b, c |-> c,
          ab |-> NextChain0(a, b), ba |-> NextChain0(b, a),
          left |-> NextChain0(NextChain0(a, b), c),
          right |-> NextChain0(a, NextChain0(b, c))]
  /\ UNCHANGED <<pc, BA, TII, is64Bit, isUsed, instr_stat, curFunc, MBB,
                 succs, it, chain0, prevMI, chainID, instrToDelete, calls,
                 erased, hist, nInstr, symverLog, lastEmit, pushDemo, totals,
                 cfg>>

NextMerge == MergeResults

SpecMerge == InitEngine /\ [][NextMerge]_vars

----------------------------------------------------------------------------
(* ROPfuscatorConfig::loadFromFile on its own: configuration files with
   every kind of algorithm string *)

\* the character in upper case, itself if it is no lower-case letter
UpperOf(c) ==
  IF \E i \in 1..Len(LowerCase) : LowerCase[i] = c
  THEN UpperCase[CHOOSE i \in 1..Len(LowerCase) : LowerCase[i] = c]
  ELSE c

\* every way of writing the lower-case string s in mixed case
RECURSIVE Casings(_)
Casings(s) ==
  IF s = <<>> THEN {<<>>}
  ELSE {<<c>> \o rest : c \in {Head(s), UpperOf(Head(s))},
                        rest \in Casings(Tail(s))}

\* s in upper case, and with a capital first letter
AllUpper(s) == [i \in 1..Len(s) |-> UpperOf(s[i])]

Capitalized(s) == [i \in 1..Len(s) |-> IF i = 1 THEN UpperOf(s[i]) ELSE s[i]]

Spellings(s) == {s, AllUpper(s), Capitalized(s)}

\* values of opaque_predicates_algorithm in the files loaded
OpAlgoStrings ==
  Casings(<<"m", "o", "v">>)
  \cup Spellings(<<"m", "u", "l", "t", "c", "o", "m", "p">>)
  \cup {<<>>, <<"m", "o">>, <<"m", "o", "v", "v">>, <<"m", "o", "v", " ">>,
        <<"x", "o", "r">>, <<"r", "d", "t", "s", "c">>,
        <<"m", "u", "l", "t", "_", "c", "o", "m", "p">>}

\* values of branch_divergence_algorithm in the files loaded
BranchAlgoStrings ==
  Casings(<<"r", "d", "t", "s", "c">>)
  \cup Spellings(<<"a", "d", "d", "r", "e", "g">>)
  \cup Spellings(<<"n", "e", "g", "a", "t", "i", "v", "e", "_", "s", "t", "a",
                   "c", "k">>)
  \cup {<<>>, <<"r", "d", "t", "c", "s">>, <<"m", "o", "v">>,
        <<"n", "e", "g", "a", "t", "i", "v", "e", "-", "s", "t", "a", "c",
          "k">>,
        <<"n", "e", "g", "a", "t", "i", "v", "e", "s", "t", "a", "c", "k">>}

\* a configuration file is loaded; nothing runs after exit(-1)
LoadFromFile ==
  /\ cfg.phase # "exit"
  /\ \E op \in {NoKey} \cup {Key(s) : s \in OpAlgoStrings},
        br \in {NoKey} \cup {Key(s) : s \in BranchAlgoStrings} :
       cfg' = loadFromFile(op, br)
  /\ UNCHANGED <<pc, BA, TII, is64Bit, isUsed, instr_stat, curFunc, MBB,
                 succs, it, chain0, prevMI, chainID, instrToDelete, calls,
                 erased, hist, nInstr, symverLog, lastEmit, pushDemo, totals,
                 mergeDemo>>

NextConfig == LoadFromFile

SpecConfig == InitEngine /\ [][NextConfig]_vars

----------------------------------------------------------------------------
(* Properties of the emission engine *)

\* the call in progress ran to its end
Emitted == lastEmit.valid /\ ~lastEmit.out.fatal

\* elements lowered for a chain: its own, and the JmpFallthrough appended to
\* a jump-free chain
LoweredLen(chain) ==
  Len(chain.chain)
  + (IF chain.hasConditionalJump \/ chain.hasUnconditionalJump THEN 0 ELSE 1)

SaeSlots(chain) == IF chain.flagSave = "SAVE_AFTER_EXEC" THEN 1 ELSE 0

Range(s) == {s[i] : i \in 1..Len(s)}

NoDuplicates(s) == \A i, j \in 1..Len(s) : i # j => s[i] # s[j]

\* C1: between the chain label and the ret a returned call emits one
\* stack-slot push per chain element (the appended JmpFallthrough included),
\* one more, a pushf, iff the chain is SAVE_AFTER_EXEC, and the whole emitted
\* sequence holds exactly one ret
C1_PushCount ==
  Emitted =>
    LET in == lastEmit.in
        e == lastEmit.out.emitted
        L == FirstIndex(e, "label")
        R == FirstIndex(e, "ret")
        body == SubSeq(e, L + 1, R - 1)
    IN /\ L > 0
       /\ R > L
       /\ CountOps(body, PushOps) = LoweredLen(in.chain) + SaeSlots(in.chain)
       /\ CountOps(body, {"pushf"}) = SaeSlots(in.chain)
       /\ CountOps(e, {"ret"}) = 1

\* a jump-free SAVE_AFTER_EXEC chain of two elements was emitted
C1_Witness ==
  /\ Emitted
  /\ lastEmit.in.chain.flagSave = "SAVE_AFTER_EXEC"
  /\ Len(lastEmit.in.chain.chain) = 2
  /\ ~IsJump(lastEmit.in.chain)
  /\ CountOps(lastEmit.out.emitted, PushOps) >= 4

\* stack pointers the emitted code is run from
StackPointers == {0, 4096, MinS32, MinS32 + 8, MaxS32 - 3}

\* C2: run from stack pointer S, the emitted prologue, pushes and register
\* restore leave the stack pointer at S - 4 * (|chain| + [SAVE_AFTER_EXEC])
\* when the ret is reached, whatever the number of saved registers
C2_EspAtRet ==
  Emitted =>
    \A S \in StackPointers :
      EspAtRet(lastEmit.out.emitted, 1, S)
        = Sub32(S, 4 * (LoweredLen(lastEmit.in.chain)
                        + SaeSlots(lastEmit.in.chain)))

\* three registers were saved around a chain
C2_Witness ==
  /\ Emitted
  /\ Len(lastEmit.out.savedRegs) = 3
  /\ CountOps(lastEmit.out.emitted, {"lea_esp"}) = 3
  /\ Len(lastEmit.in.chain.chain) = 2

\* C7: the emitted sequence is: the .symver directives of the anchors this
\* chain uses first, the save prologue, the chain label, the pushes (then the
\* register restore), ret, the resume label if required, popf iff
\* SAVE_AFTER_EXEC; a directive precedes every push through its symbol and
\* nothing else follows ret
C7_EmissionOrder ==
  Emitted =>
    LET in == lastEmit.in
        out == lastEmit.out
        e == out.emitted
        nSym == CountOps(e, {"symver"})
        L == FirstIndex(e, "label")
        R == FirstIndex(e, "ret")
        tail == SubSeq(e, R + 1, Len(e))
        sae == in.chain.flagSave = "SAVE_AFTER_EXEC"
        resume == \E i \in 1..Len(in.chain.chain) :
                     in.chain.chain[i].type = "JMP_FALLTHROUGH"
        required == (resume \/ ~IsJump(in.chain)) /\ (~in.isLastNode \/ sae)
    IN /\ \A i \in 1..nSym :
            /\ e[i].op = "symver"
            /\ e[i].sym \notin lastEmit.usedBefore
            /\ SymbolTable[e[i].sym].Version # "Base"
       /\ nSym < L
       /\ L < R
       /\ e[L].label = out.asChainLabel
       /\ \A i \in (nSym + 1)..(L - 1) :
            e[i].op \in {"lea_esp", "push_reg", "pushf"}
       /\ \A i \in (L + 1)..(R - 1) :
            e[i].op \in PushOps \cup {"opaque", "add_imm", "add_gv", "add_sym",
                                      "add_label", "lea_esp", "pop_reg", "popf"}
       /\ \A i, j \in (L + 1)..(R - 1) :
            e[i].op \in PushOps /\ e[j].op \in {"lea_esp", "pop_reg", "popf"}
              => i < j
       /\ tail = (IF required THEN <<AsPutLabel(out.asResumeLabel)>> ELSE <<>>)
                 \o (IF sae THEN <<AsPopf>> ELSE <<>>)
       /\ \A j \in 1..Len(e) :
            (/\ e[j].op \in {"push_sym", "add_sym"}
             /\ SymbolTable[e[j].sym].Version # "Base"
             /\ e[j].sym \notin lastEmit.usedBefore)
              => \E i \in 1..(j - 1) : e[i] = AsSymver(e[j].sym)

\* a SAVE_AFTER_EXEC chain with a directive, saved registers and a resume
\* label was emitted
C7_Witness ==
  /\ Emitted
  /\ lastEmit.in.chain.flagSave = "SAVE_AFTER_EXEC"
  /\ lastEmit.out.emitted[1].op = "symver"
  /\ lastEmit.out.savedRegs # <<>>
  /\ lastEmit.out.emitted[Len(lastEmit.out.emitted)] = AsPopf
  /\ lastEmit.out.emitted[Len(lastEmit.out.emitted) - 1].op = "label"

\* C8 (state part): no symbol has two directives, a "Base" symbol has none,
\* the symbols marked used are those with a directive, and the directives a
\* call emits are those of the symbols it marked
C8_Inv ==
  /\ NoDuplicates(symverLog)
  /\ \A i \in 1..Len(symverLog) : SymbolTable[symverLog[i]].Version # "Base"
  /\ isUsed = Range(symverLog)
  /\ Emitted =>
       LET e == lastEmit.out.emitted
           dirs == {i \in 1..Len(e) : e[i].op = "symver"}
       IN /\ {e[i].sym : i \in dirs} = isUsed \ lastEmit.usedBefore
          /\ \A i, j \in dirs : i # j => e[i].sym # e[j].sym

\* C8: over the calls of the engine a .symver directive is emitted at most
\* once per symbol and only for symbols whose Version is not "Base"; isUsed
\* only grows, and a symbol enters it exactly when its directive is queued
C8_SymverOnce ==
  /\ [](C8_Inv)
  /\ [][/\ isUsed \subseteq isUsed'
        /\ isUsed' \ isUsed = Range(SubSeq(symverLog', Len(symverLog) + 1,
                                           Len(symverLog')))
        /\ SubSeq(symverLog', 1, Len(symverLog)) = symverLog]_vars

\* a later call picks an anchor whose directive an earlier call emitted
C8_Witness ==
  /\ Emitted
  /\ lastEmit.usedBefore # {}
  /\ \E k \in 1..Len(lastEmit.out.samples) :
       lastEmit.out.samples[k].sym \in lastEmit.usedBefore
  /\ lastEmit.out.versionedSymbols = <<>>
  /\ CountOps(lastEmit.out.emitted, {"symver"}) = 0

\* C9: the opaque lowering of PUSH_IMM(v) pushes the word the plain lowering
\* pushes, which is v, for every opaque output o (o + (v - o) = v modulo
\* 2^32)
C9_OpaquePushImm ==
  pushDemo.valid =>
    /\ PushedWord(pushDemo.lowered, 1, 0) = PushedWord(pushDemo.plain, 1, 0)
    /\ PushedWord(pushDemo.lowered, 1, 0) = pushDemo.value
    /\ Len(pushDemo.lowered) = 3

\* a negative immediate below the opaque output, the difference wrapping
C9_Witness ==
  /\ pushDemo.valid
  /\ pushDemo.value = MinS32
  /\ pushDemo.opaque = MaxS32
  /\ pushDemo.lowered[2].imm = 1

\* C10: for every gadget lowered, the sampled positions are positions of
\* its address list, as many as min(max_branches, |addresses|) when branch
\* divergence is enabled and exactly one when it is not, one offset each
C10_SampleCount ==
  lastEmit.valid =>
    \A k \in 1..Len(lastEmit.out.samples) :
      LET sample == lastEmit.out.samples[k]
          param == lastEmit.in.param
          addresses == GadgetAddresses[sample.microgadget]
      IN /\ sample.pos \subseteq 1..Len(addresses)
         /\ Len(sample.offsets) = Cardinality(sample.pos)
         /\ Cardinality(sample.pos) =
              IF param.opaqueBranchDivergenceEnabled
              THEN Min(param.opaqueBranchDivergenceMaxBranches, Len(addresses))
              ELSE 1

\* two of the four addresses of a gadget were sampled
C10_Witness ==
  /\ lastEmit.valid
  /\ lastEmit.in.param.opaqueBranchDivergenceEnabled
  /\ lastEmit.in.param.opaqueBranchDivergenceMaxBranches = 2
  /\ \E k \in 1..Len(lastEmit.out.samples) :
       /\ Len(GadgetAddresses[lastEmit.out.samples[k].microgadget]) = 4
       /\ Cardinality(lastEmit.out.samples[k].pos) = 2
       /\ Len(lastEmit.out.samples[k].offsets) = 2

----------------------------------------------------------------------------
(* Properties of the function driver *)

\* the step processed one more real instruction
ProcessedOne == Len(hist') = Len(hist) + 1

\* the entries of the instructions whose final status is OK, in order
OkEntries == SelectSeq(hist, LAMBDA h : h.status = "OK")

\* id of the OK instruction processed last, 0 when there is none
LastOkId ==
  IF OkEntries = <<>> THEN 0 ELSE OkEntries[Len(OkEntries)].id

\* the elements of a sequence of chains, in order
RECURSIVE FlattenChains(_)
FlattenChains(chains) ==
  IF chains = <<>> THEN <<>>
  ELSE Head(chains) \o FlattenChains(Tail(chains))

\* C3 (state part): an instruction whose final status is not OK is neither
\* in the deletion list nor erased
C3_Kept ==
  \A k \in 1..Len(hist) :
    hist[k].status # "OK" =>
      /\ hist[k].id \notin Range(erased)
      /\ \A i \in 1..Len(instrToDelete) :
           MBB[instrToDelete[i]].id # hist[k].id

\* C3 (step part): at such an instruction the pending chain, if any, is
\* emitted at the OK instruction remembered last, no chain is pending
\* afterwards and the iteration goes on with the next instruction
C3_Step ==
  (ProcessedOne /\ hist'[Len(hist')].status # "OK") =>
    /\ ~valid(chain0')
    /\ instrToDelete' = instrToDelete
    /\ it' = it + 1
    /\ pc' = "iter"
    /\ IF valid(chain0)
       THEN /\ Len(calls') = Len(calls) + 1
            /\ SubSeq(calls', 1, Len(calls)) = calls
            /\ calls'[Len(calls')].chain = chain0
            /\ calls'[Len(calls')].anchor = LastOkId
            /\ LastOkId # 0
       ELSE calls' = calls

\* C3: an instruction whose final status is not OK is never put on the
\* deletion list and stays in its block; at it the pending merged chain is
\* flushed at the previously remembered OK instruction, the pending chain is
\* empty afterwards, and the loop continues with the next instruction
C3_ErrorKeepsInstruction == [](C3_Kept) /\ [][C3_Step]_vars

\* a function finished in which an OK instruction, a failing one and another
\* OK one gave two chains, the failing instruction kept
C3_Witness ==
  /\ pc = "idle"
  /\ Len(hist) = 3
  /\ hist[1].status = "OK"
  /\ hist[2].status = "ERR_NOT_IMPLEMENTED"
  /\ hist[3].status = "OK"
  /\ Len(calls) = 2
  /\ calls[1].anchor = hist[1].id
  /\ erased = <<hist[1].id, hist[3].id>>

\* the pass is back from an enabled function
Finished ==
  /\ pc = "idle"
  /\ curFunc.name # <<>>
  /\ curFunc.param.obfuscationEnabled

\* C4: when obfuscateFunction is back from an enabled function, the erased
\* instructions are the OK ones, each once, and the chains passed to the
\* engine hold the elements of the OK instructions' chains, each once, in
\* instruction order
C4_ErasedAndEmittedOnce ==
  Finished =>
    /\ erased = [k \in 1..Len(OkEntries) |-> OkEntries[k].id]
    /\ FlattenChains([k \in 1..Len(calls) |-> calls[k].chain.chain])
         = FlattenChains([k \in 1..Len(OkEntries) |->
                            OkEntries[k].result.chain])

\* two OK instructions were merged into one chain, a third got its own
C4_Witness ==
  /\ Finished
  /\ Len(OkEntries) = 3
  /\ Len(calls) = 2
  /\ Len(calls[1].chain.chain) = 3
  /\ Len(erased) = 3

\* C5 (step part): a call of obfuscateFunction on a disabled function
\* leaves the engine's calls, the erased instructions, the chain ids and the
\* counters as they were and does not reach the loop over the blocks
C5_Step ==
  (pc = "idle" /\ ~curFunc'.param.obfuscationEnabled) =>
    /\ UNCHANGED <<calls, erased, chainID, instr_stat, instrToDelete, hist,
                   isUsed, symverLog, nInstr>>
    /\ pc' \in {"idle", "fatal"}

\* C5: for a function with obfuscationEnabled = false the engine is never
\* called, no instruction is erased, no chain id is consumed and no counter
\* changes
C5_DisabledUntouched ==
  /\ [](pc \in {"blocks", "iter"} => curFunc.param.obfuscationEnabled)
  /\ [][C5_Step]_vars

\* a disabled function has been passed over after an enabled one was
\* obfuscated
C5_Witness ==
  /\ pc = "idle"
  /\ ~curFunc.param.obfuscationEnabled
  /\ TII
  /\ Len(calls) > 0
  /\ Len(erased) > 0

\* the step counted status for the instruction of entry h and acted on it
ActedOn(h, status) ==
  /\ h.status = status
  /\ instr_stat' = [instr_stat EXCEPT ![h.opcode][status] = @ + 1]
  /\ (status = "OK") <=> (instrToDelete' = Append(instrToDelete, it))
  /\ (status # "OK") <=> (instrToDelete' = instrToDelete)

----------------------------------------------------------------------------
(* Properties of the lowering of EspPush and EspOffset *)

\* the element list the engine lowers: the chain's, with the JmpFallthrough
\* appended to a jump-free chain
LoweredElems == AppendFallthrough(lastEmit.in.chain).chain

IsEspOffset(e) == e.type = "ESP_OFFSET"

IsEspPushOf(e, id) == e.type = "ESP_PUSH" /\ e.esp_id = id

\* the EspOffset at position i has an EspPush of its id somewhere in J
PushAmong(elems, i, J) ==
  \E j \in J : IsEspPushOf(elems[j], elems[i].esp_id)

\* some EspOffset is reached by the lowering loop, which runs from the last
\* element to the first, before any EspPush of its id
OffsetBeforePush(elems) ==
  \E i \in 1..Len(elems) :
    /\ IsEspOffset(elems[i])
    /\ ~PushAmong(elems, i, (i + 1)..Len(elems))

\* C13: when an EspOffset(id, v) is lowered and no EspPush(id) has been
\* recorded earlier in lowering order, the call is fatal: the compilation
\* terminates and nothing of the chain, no push and no ret, is emitted
C13_UnrecordedOffsetFatal ==
  (lastEmit.valid /\ OffsetBeforePush(LoweredElems)) =>
    /\ lastEmit.out.fatal
    /\ pc = "fatal"
    /\ lastEmit.out.emitted = <<>>

\* an EspOffset of id 1 met after only an EspPush of id 2 was recorded
C13_Witness ==
  /\ lastEmit.valid
  /\ lastEmit.in.chain.chain = <<EspOffset(1, 12), EspPush(2)>>
  /\ lastEmit.out.fatal
  /\ pc = "fatal"

\* C14 as stated: a chain in which every EspOffset(id) is preceded, in the
\* order of its element list, by an EspPush(id) is lowered without the
\* fatal error
C14_Original ==
  (/\ lastEmit.valid
   /\ \A i \in 1..Len(lastEmit.in.chain.chain) :
        IsEspOffset(lastEmit.in.chain.chain[i]) =>
          PushAmong(lastEmit.in.chain.chain, i, 1..(i - 1)))
  => ~lastEmit.out.fatal

\* C14 (amended): a chain in which every EspOffset(id) is followed, in the
\* order of its element list, by an EspPush(id) is lowered without the
\* fatal error and its code is emitted
C14_PushAfterOffsetLowered ==
  (/\ lastEmit.valid
   /\ \A i \in 1..Len(lastEmit.in.chain.chain) :
        IsEspOffset(lastEmit.in.chain.chain[i]) =>
          PushAmong(lastEmit.in.chain.chain, i,
                    (i + 1)..Len(lastEmit.in.chain.chain)))
  => /\ ~lastEmit.out.fatal
     /\ pc = "emitted"
     /\ lastEmit.out.emitted # <<>>

\* an EspOffset followed by the EspPush of its id was lowered: the offset
\* became an immediate relative to the recorded stack offset
C14_Witness ==
  /\ lastEmit.valid
  /\ lastEmit.in.chain.chain = <<EspOffset(1, 12), EspPush(1)>>
  /\ lastEmit.in.chain.flagSave = "NOT_SAVED"
  /\ lastEmit.in.chain.hasUnconditionalJump
  /\ ~lastEmit.out.fatal
  /\ Len(lastEmit.out.pushchain) = 2
  /\ lastEmit.out.pushchain[1].kind = "PUSH_ESP"
  /\ lastEmit.out.pushchain[2].kind = "PUSH_IMM"
  /\ lastEmit.out.pushchain[2].value = 12

----------------------------------------------------------------------------
(* Properties of merging *)

\* C11: merging is associative over jump-free chains: merging a with b and
\* then with c gives the same element list and the same flag-save mode as
\* merging a with the merge of b and c, and the merged chain has
\* |a| + |b| + |c| elements
C11_MergeAssociative ==
  mergeDemo.valid =>
    /\ mergeDemo.left.chain = mergeDemo.right.chain
    /\ mergeDemo.left.flagSave = mergeDemo.right.flagSave
    /\ Len(mergeDemo.left.chain)
         = Len(mergeDemo.a.chain) + Len(mergeDemo.b.chain)
           + Len(mergeDemo.c.chain)

\* three non-empty chains of three different flag-save modes, the highest
\* one first, were merged
C11_Witness ==
  /\ mergeDemo.valid
  /\ mergeDemo.a.chain # <<>> /\ mergeDemo.b.chain # <<>>
  /\ mergeDemo.c.chain # <<>>
  /\ mergeDemo.a.flagSave = "SAVE_AFTER_EXEC"
  /\ mergeDemo.b.flagSave = "NOT_SAVED"
  /\ mergeDemo.c.flagSave = "SAVE_BEFORE_EXEC"
  /\ mergeDemo.left.flagSave = "SAVE_AFTER_EXEC"
  /\ Len(mergeDemo.left.chain) >= 3

\* C12 as stated: merging is commutative over jump-free chains: a merged
\* with b and b merged with a are the same chain
C12_Original ==
  mergeDemo.valid =>
    /\ mergeDemo.ab.chain = mergeDemo.ba.chain
    /\ mergeDemo.ab.flagSave = mergeDemo.ba.flagSave

\* C12 (amended): a merged with b and b merged with a have the same
\* flag-save mode and the same length; the element list of the first is a's
\* elements followed by b's, that of the second b's followed by a's
C12_MergeOrder ==
  mergeDemo.valid =>
    /\ mergeDemo.ab.flagSave = mergeDemo.ba.flagSave
    /\ Len(mergeDemo.ab.chain) = Len(mergeDemo.ba.chain)
    /\ mergeDemo.ab.chain = mergeDemo.a.chain \o mergeDemo.b.chain
    /\ mergeDemo.ba.chain = mergeDemo.b.chain \o mergeDemo.a.chain

\* two chains of different flag-save modes whose merges differ by the order
\* of the elements
C12_Witness ==
  /\ mergeDemo.valid
  /\ mergeDemo.a.flagSave # mergeDemo.b.flagSave
  /\ mergeDemo.ab.chain # mergeDemo.ba.chain
  /\ mergeDemo.ab.flagSave = mergeDemo.ba.flagSave

----------------------------------------------------------------------------
(* Properties of the function driver: merged runs and statistics *)

\* the entries of the real instructions of the block being iterated
BlockHist ==
  SelectSeq(hist, LAMBDA h : \E k \in 1..Len(MBB) : MBB[k].id = h.id)

\* the instruction was ropified and its chain does not jump
Mergeable(h) == h.status = "OK" /\ ~IsJump(h.result)

\* entries i..j of B are a maximal run of mergeable instructions
IsMaximalRun(B, i, j) ==
  /\ i <= j
  /\ \A k \in i..j : Mergeable(B[k])
  /\ i = 1 \/ ~Mergeable(B[i - 1])
  /\ j = Len(B) \/ ~Mergeable(B[j + 1])

\* ids of the instructions in the deletion list
DeletionIds == {MBB[instrToDelete[k]].id : k \in 1..Len(instrToDelete)}

\* the run i..j of B got one call among cs, at its last instruction, with
\* the run's chains concatenated, and is in the deletion list
RunEmittedOnce(B, i, j, cs, deleted) ==
  LET ids == {B[k].id : k \in i..j}
      mine == {n \in 1..Len(cs) : cs[n].anchor \in ids}
  IN /\ Cardinality(mine) = 1
     /\ \A n \in mine :
          /\ cs[n].anchor = B[j].id
          /\ cs[n].chain.chain
               = FlattenChains([k \in 1..(j - i + 1) |->
                                  B[i + k - 1].result.chain])
     /\ ids \subseteq deleted

\* C15: when the iteration of a block ends, every maximal run of
\* consecutive real instructions of the block that were ropified without a
\* jump has produced exactly one call of the emission engine, anchored at
\* the last instruction of the run, whose element list is the run's chains
\* concatenated in instruction order, and the run's instructions are all in
\* the deletion list
C15_OneCallPerRun ==
  [][(pc = "iter" /\ pc' = "blocks") =>
       \A i, j \in 1..Len(BlockHist) :
         IsMaximalRun(BlockHist, i, j) =>
           RunEmittedOnce(BlockHist, i, j, calls', DeletionIds)]_vars

\* a block of two mergeable instructions with a debug instruction between
\* them ended: one call, at the second, with both chains, both erased
C15_Witness ==
  /\ pc = "blocks"
  /\ Len(MBB) = 3 /\ MBB[2].isDebug
  /\ Len(hist) = 2
  /\ Mergeable(hist[1]) /\ Mergeable(hist[2])
  /\ Len(calls) = 1
  /\ calls[1].anchor = hist[2].id
  /\ calls[1].chain.chain = hist[1].result.chain \o hist[2].result.chain
  /\ erased = <<hist[1].id, hist[2].id>>

RECURSIVE SumOver(_, _)
SumOver(f, D) ==
  IF D = {} THEN 0
  ELSE LET x == CHOOSE y \in D : TRUE
       IN f[x] + SumOver(f, D \ {x})

\* the counters of the statuses sts, summed over the opcodes
StatSum(stat, sts) ==
  SumOver([o \in Opcodes |-> SumOver(stat[o], sts)], Opcodes)

\* the counter of the instruction's opcode and final status went up by one
\* and no other counter moved
C16_Step ==
  IF ProcessedOne
  THEN LET h == hist'[Len(hist')]
       IN /\ h.status = FinalStatus(h.ret, h.result, h.shouldFlagSaved)
          /\ \A o \in Opcodes, st \in Statuses :
               instr_stat'[o][st]
                 = instr_stat[o][st]
                   + (IF o = h.opcode /\ st = h.status THEN 1 ELSE 0)
  ELSE instr_stat' = instr_stat

\* C16: each real instruction of an enabled function increments exactly
\* one counter, that of its opcode and final status, by one, and nothing
\* else changes a counter; so the counters sum to the number of processed
\* instructions, and the OK counters to the number of instructions erased
\* or, within a block, waiting in the deletion list
C16_CountedOnce ==
  /\ [][C16_Step]_vars
  /\ [](/\ StatSum(instr_stat, Statuses) = totals.processed
        /\ StatSum(instr_stat, {"OK"})
             = totals.erased + Len(instrToDelete)
        /\ pc = "idle" => StatSum(instr_stat, {"OK"}) = totals.erased)

\* after two functions the counters hold an erased instruction and a
\* forced ERR_UNSUPPORTED one, more than the last function processed
C16_Witness ==
  /\ Finished
  /\ totals.processed = 3
  /\ Len(hist) < 3
  /\ totals.erased >= 1
  /\ instr_stat["JCC_1"]["ERR_UNSUPPORTED"] >= 1
  /\ instr_stat["MOV32ri"]["OK"] >= 1

----------------------------------------------------------------------------
(* Properties of the lowering of JmpFallthrough in the driver's calls *)

\* the step called insertROPChain
CalledEngine == Len(calls') = Len(calls) + 1

\* how the JmpFallthrough appended to the jump-free chain of call c was
\* lowered, given whether the anchor counts as last in its block and
\* whether the block has a layout successor
FallthroughLowering(c, last, succ) ==
  LET sae == c.chain.flagSave = "SAVE_AFTER_EXEC"
      out == c.out
      ft == out.pushchain[IF sae THEN 2 ELSE 1]
      R == FirstIndex(out.emitted, "ret")
      resumeAfterRet ==
        \E i \in (R + 1)..Len(out.emitted) :
          out.emitted[i] = AsPutLabel(out.asResumeLabel)
      atSuccessor ==
        \E i \in 1..Len(out.putLabels) :
          out.putLabels[i] = [block |-> "layout_successor",
                              label |-> out.asResumeLabel]
  IN IF last /\ ~sae
     THEN IF succ
          THEN /\ ft.kind = "PUSH_LABEL" /\ ft.label = out.asResumeLabel
               /\ atSuccessor
               /\ ~out.resumeLabelRequired /\ ~resumeAfterRet
          ELSE /\ ft.kind = "PUSH_IMM" /\ ft.value = 0
               /\ ~atSuccessor
               /\ ~out.resumeLabelRequired /\ ~resumeAfterRet
     ELSE /\ ft.kind = "PUSH_LABEL" /\ ft.label = out.asResumeLabel
          /\ ~atSuccessor
          /\ out.resumeLabelRequired /\ resumeAfterRet

\* C17 as stated: the anchor counts as last when only debug instructions
\* follow it in its block
C17_Original ==
  [][(CalledEngine /\ ~IsJump(calls'[Len(calls')].chain)) =>
       FallthroughLowering(calls'[Len(calls')],
          \A k \in (prevMI + 1)..Len(MBB') : MBB'[k].isDebug,
          succs')]_vars

\* C17 (amended): JmpFallthrough is lowered by this case analysis: if the
\* anchor is the last instruction of its block, debug instructions counted,
\* and the chain is not SAVE_AFTER_EXEC, then with a layout successor the
\* resume label is attached to the start of that successor and pushed, and
\* without one immediate 0 is pushed and no resume label is emitted;
\* otherwise the resume label is pushed and emitted after ret
C17_FallthroughCases ==
  [][(CalledEngine /\ ~IsJump(calls'[Len(calls')].chain)) =>
       FallthroughLowering(calls'[Len(calls')], prevMI = Len(MBB'),
                           succs')]_vars

\* a block with a layout successor ended on a debug instruction after its
\* anchor: the resume label was emitted after ret, not put on the successor
C17_Witness ==
  /\ pc = "blocks"
  /\ succs
  /\ Len(MBB) = 2 /\ MBB[2].isDebug /\ prevMI = 1
  /\ Len(calls) = 1
  /\ calls[1].chain.flagSave = "NOT_SAVED"
  /\ calls[1].out.resumeLabelRequired
  /\ calls[1].out.putLabels = <<>>

----------------------------------------------------------------------------
(* Properties of the configuration *)

\* s is the lower-case name written in some mix of cases
IsCasingOf(s, name) ==
  /\ Len(s) = Len(name)
  /\ \A i \in 1..Len(s) : s[i] = name[i] \/ s[i] = UpperOf(name[i])

\* the algorithm a string names when case is ignored, <<>> if none
NamedOpAlgo(s) ==
  IF IsCasingOf(s, <<"m", "o", "v">>) THEN <<"MOV">>
  ELSE IF IsCasingOf(s, <<"m", "u", "l", "t", "c", "o", "m", "p">>)
  THEN <<"MULTCOMP">>
  ELSE <<>>

NamedBranchAlgo(s) ==
  IF IsCasingOf(s, <<"a", "d", "d", "r", "e", "g">>) THEN <<"ADDREG_MOV">>
  ELSE IF IsCasingOf(s, <<"r", "d", "t", "s", "c">>) THEN <<"RDTSC_MOV">>
  ELSE IF IsCasingOf(s, <<"n", "e", "g", "a", "t", "i", "v", "e", "_", "s",
                         "t", "a", "c", "k">>)
  THEN <<"NEGSTK_MOV">>
  ELSE <<>>

\* C18: algorithm names are matched without regard to case: every casing of
\* mov or multcomp, and of addreg, rdtsc or negative_stack, sets the same
\* algorithm; any other string ends the loading with exit, and no parameter
\* is ever left set to an algorithm outside the known ones
C18_AlgorithmNames ==
  /\ cfg.opaqueConstantAlgorithm \in {<<"MOV">>, <<"MULTCOMP">>}
  /\ cfg.opaqueBranchDivergenceAlgorithm
       \in {<<"ADDREG_MOV">>, <<"RDTSC_MOV">>, <<"NEGSTK_MOV">>}
  /\ cfg.phase # "constructed" =>
       LET opBad == cfg.op_algo.present
                    /\ NamedOpAlgo(cfg.op_algo.value) = <<>>
           brBad == cfg.branch_div_algo.present
                    /\ NamedBranchAlgo(cfg.branch_div_algo.value) = <<>>
       IN /\ (cfg.phase = "exit") <=> (opBad \/ brBad)
          /\ (cfg.op_algo.present /\ ~opBad) =>
               cfg.opaqueConstantAlgorithm = NamedOpAlgo(cfg.op_algo.value)
          /\ (cfg.phase = "loaded" /\ cfg.branch_div_algo.present) =>
               cfg.opaqueBranchDivergenceAlgorithm
                 = NamedBranchAlgo(cfg.branch_div_algo.value)
          /\ (~cfg.op_algo.present \/ opBad) =>
               cfg.opaqueConstantAlgorithm = <<"MOV">>
          /\ (~cfg.branch_div_algo.present \/ cfg.phase = "exit") =>
               cfg.opaqueBranchDivergenceAlgorithm = <<"ADDREG_MOV">>

\* a file naming its algorithms in mixed case was loaded
C18_Witness ==
  /\ cfg.phase = "loaded"
  /\ cfg.op_algo = Key(<<"M", "o", "V">>)
  /\ cfg.branch_div_algo = Key(<<"r", "D", "t", "S", "c">>)
  /\ cfg.opaqueConstantAlgorithm = <<"MOV">>
  /\ cfg.opaqueBranchDivergenceAlgorithm = <<"RDTSC_MOV">>

----------------------------------------------------------------------------
(* Run-time effect of the emitted code on the stack: what each word holds
   when control reaches ret *)

\* one 32-bit word: an immediate, a global or a symbol plus an offset, a
\* label plus an offset, a stack address, a register's or the flags' value
\* at entry; seq numbers the pushes in the order they were executed
Word(class, sym, label, value) ==
  [class |-> class, sym |-> sym, label |-> label, value |-> value, seq |-> 0]

\* what register r holds before the emitted code runs
EntryWord(r) == Word(IF r = "EFLAGS" THEN "flags" ELSE "reg", r, <<>>, 0)

\* what a register holds after code that clobbers it
JunkWord(r) == Word("junk", r, <<>>, 0)

\* the machine before the emitted code runs: ESP at S, every register at
\* its entry value, an empty record of the words written below S
Machine(S) ==
  [esp |-> S,
   regs |-> [r \in {RegOrder[k] : k \in 1..Len(RegOrder)} |-> EntryWord(r)],
   mem |-> <<>>, pushed |-> 0]

\* the word at address a becomes w
Store(mem, a, w) ==
  [x \in (DOMAIN mem) \cup {a} |-> IF x = a THEN w ELSE mem[x]]

\* push w: ESP goes down by 4, then the word is written at ESP
PushWord(m, w) ==
  [m EXCEPT !.esp = Sub32(@, 4),
            !.pushed = @ + 1,
            !.mem = Store(@, Sub32(m.esp, 4),
                          [w EXCEPT !.seq = m.pushed + 1])]

\* pop into register r: the word at ESP is read, then ESP goes up by 4; a
\* word nothing was written to holds no known value
PopWord(m, r) ==
  [m EXCEPT !.esp = Add32(@, 4),
            !.regs[r] = IF m.esp \in DOMAIN m.mem
                        THEN [m.mem[m.esp] EXCEPT !.seq = 0]
                        ELSE JunkWord(r)]

\* add to EAX: the sum, and the arithmetic flags of the sum
AddToEax(m, w) ==
  [m EXCEPT !.regs["EAX"] = w, !.regs["EFLAGS"] = JunkWord("EFLAGS")]

\* one emitted instruction executed
Exec(tok, m) ==
  CASE tok.op = "push_imm" -> PushWord(m, Word("imm", "", <<>>, tok.imm))
    [] tok.op = "push_gv" -> PushWord(m, Word("gv", tok.sym, <<>>, tok.imm))
    [] tok.op = "push_sym" -> PushWord(m, Word("sym", tok.sym, <<>>, tok.imm))
    [] tok.op = "push_label" -> PushWord(m, Word("label", "", tok.label, 0))
    [] tok.op = "pushf" -> PushWord(m, m.regs["EFLAGS"])
    [] tok.op = "push_reg" ->
         PushWord(m, IF tok.reg = "ESP" THEN Word("esp", "", <<>>, m.esp)
                     ELSE m.regs[tok.reg])
    [] tok.op = "pop_reg" -> PopWord(m, tok.reg)
    [] tok.op = "popf" -> PopWord(m, "EFLAGS")
    [] tok.op = "lea_esp" -> [m EXCEPT !.esp = Add32(@, tok.imm)]
    [] tok.op = "opaque" ->
         [m EXCEPT !.regs =
            [r \in DOMAIN m.regs |->
               IF r = "EAX" THEN Word("imm", "", <<>>, tok.opq.outputs[1])
               ELSE IF r \in tok.opq.clobbered THEN JunkWord(r)
               ELSE m.regs[r]]]
    [] tok.op = "add_imm" ->
         AddToEax(m, [m.regs["EAX"] EXCEPT !.value = Add32(@, tok.imm)])
    [] tok.op = "add_gv" ->
         AddToEax(m, Word("gv", tok.sym, <<>>,
                          Add32(m.regs["EAX"].value, tok.imm)))
    [] tok.op = "add_sym" ->
         AddToEax(m, Word("sym", tok.sym, <<>>, m.regs["EAX"].value))
    [] tok.op = "add_label" ->
         AddToEax(m, Word("label", "", tok.label,
                          Add32(m.regs["EAX"].value, tok.imm)))
    [] OTHER -> m

\* the machine when control reaches the first ret
RECURSIVE RunToRet(_, _, _)
RunToRet(emitted, i, m) ==
  IF i > Len(emitted) \/ emitted[i].op = "ret" THEN m
  ELSE RunToRet(emitted, i + 1, Exec(emitted[i], m))

----------------------------------------------------------------------------
(* Properties of the order of the chain on the stack *)

\* the machine at the ret of the call in progress, run from ESP = 0
AtRet == RunToRet(lastEmit.out.emitted, 1, Machine(0))

\* the element list that was lowered, the appended JmpFallthrough included
ChainOnStack == lastEmit.out.chain.chain

\* address of the word i-1 words above ESP in machine m
SlotAddr(m, i) == m.esp + 4 * (i - 1)

\* the word at slot i of machine m
SlotWord(m, i) == m.mem[SlotAddr(m, i)]

\* the word at slot i of machine m is what element i of the lowered list
\* elems stands for
HoldsElem(m, elems, s, i) ==
  LET e == elems[i]
      w == SlotWord(m, s)
      out == lastEmit.out
      later == {j \in (i + 1)..Len(elems) : IsEspPushOf(elems[j], e.esp_id)}
      rec == CHOOSE j \in later : \A k \in later : j <= k
  IN CASE e.type = "IMM_VALUE" -> w.class = "imm" /\ w.value = e.value
       [] e.type = "IMM_GLOBAL" ->
            w.class = "gv" /\ w.sym = e.global /\ w.value = e.value
       [] e.type = "GADGET" ->
            w.class = "sym" /\ w.sym = lastEmit.draws[i].sym
       [] e.type = "JMP_BLOCK" ->
            /\ w.class = "label" /\ w.value = 0
            /\ \E k \in 1..Len(out.putLabels) :
                 out.putLabels[k] = [block |-> e.jmptarget, label |-> w.label]
       [] e.type = "JMP_FALLTHROUGH" ->
            \/ w.class = "label" /\ w.label = out.asResumeLabel /\ w.value = 0
            \/ w.class = "imm" /\ w.value = 0
       [] e.type = "ESP_PUSH" -> w.class = "esp" /\ w.value = SlotAddr(m, s) + 4
       [] e.type = "ESP_OFFSET" ->
            w.class = "imm" /\ w.value = e.value - (SlotAddr(m, rec) + 4)

\* C19: the engine pushes the chain in reverse: when ret executes, the
\* word at ESP is the chain's first element and the words above it are the
\* following elements in chain order, so the last element (the appended
\* JmpFallthrough for a jump-free chain) is at the highest chain address;
\* each element was pushed before the elements that precede it in the
\* chain, the last one first; the saved flags lie above a SAVE_AFTER_EXEC
\* chain
C19_ReverseOrder ==
  Emitted =>
    LET m == AtRet
        elems == ChainOnStack
        n == Len(elems)
        seq == [i \in 1..n |-> SlotWord(m, i).seq]
    IN /\ \A i \in 1..n : SlotAddr(m, i) \in DOMAIN m.mem
       /\ \A i \in 1..n : HoldsElem(m, elems, i, i)
       /\ \A i \in 1..(n - 1) : seq[i] > seq[i + 1]
       /\ lastEmit.in.chain.flagSave = "SAVE_AFTER_EXEC" =>
            /\ SlotAddr(m, n + 1) \in DOMAIN m.mem
            /\ SlotWord(m, n + 1).class = "flags"
            /\ SlotWord(m, n + 1).seq < seq[n]

\* a global and a gadget, lowered through opaque constants with saved
\* registers, lie in chain order under the resume address
C19_Witness ==
  /\ Emitted
  /\ lastEmit.in.chain.chain = <<ImmGlobal("gv", 8), Gadget("xchg")>>
  /\ lastEmit.in.chain.flagSave = "SAVE_BEFORE_EXEC"
  /\ lastEmit.in.param.opaquePredicateEnabled
  /\ Len(lastEmit.out.savedRegs) >= 2
  /\ LET m == AtRet
     IN /\ SlotWord(m, 1).class = "gv"
        /\ SlotWord(m, 2).class = "sym"
        /\ SlotWord(m, 3).class = "label"

\* C20 as stated: the last element of the chain's element list is the one
\* pushed last, the word at ESP when ret executes
C20_Original ==
  Emitted =>
    LET m == AtRet
        elems == ChainOnStack
        n == Len(elems)
    IN /\ HoldsElem(m, elems, 1, n)
       /\ \A i \in 1..n : SlotWord(m, i).seq <= SlotWord(m, 1).seq

\* C20 (amended): the first element of the chain's element list is the one
\* pushed last, so it is the word at ESP that ret consumes first; the last
\* element is the one pushed first
C20_FirstElementConsumedFirst ==
  Emitted =>
    LET m == AtRet
        elems == ChainOnStack
        n == Len(elems)
    IN /\ HoldsElem(m, elems, 1, 1)
       /\ \A i \in 1..n :
            /\ SlotWord(m, i).seq <= SlotWord(m, 1).seq
            /\ SlotWord(m, i).seq >= SlotWord(m, n).seq

\* an immediate followed by a jump: the immediate is at ESP, pushed after
\* the jump target
C20_Witness ==
  /\ Emitted
  /\ lastEmit.in.chain.chain = <<ImmValue(5), JmpBlock("bb2")>>
  /\ LET m == AtRet
     IN /\ SlotWord(m, 1).class = "imm"
        /\ SlotWord(m, 1).value = 5
        /\ SlotWord(m, 2).class = "label"
        /\ SlotWord(m, 2).seq < SlotWord(m, 1).seq

----------------------------------------------------------------------------
(* Properties of the register save and restore around the chain *)

\* the emitted items before the chain label: directives and prologue
BeforeChainLabel(e) == SubSeq(e, 1, FirstIndex(e, "label") - 1)

\* the machine after the prologue, run from ESP = S
AfterPrologue(S) ==
  RunToRet(BeforeChainLabel(lastEmit.out.emitted), 1, Machine(S))

\* the stack offset of the chain's lowest word: minus four bytes per lowered
\* element and per saved flags word
ChainBottom(chain) == -4 * (LoweredLen(chain) + SaeSlots(chain))

\* stack pointers of the original instruction point
EntryPointers == {0, 4096, -64}

\* C21: with N > 0 saved registers, the prologue writes the N saved words
\* only below the lowest slot of the chain, the k-th register of the set at
\* S + espoffset - 4k, and leaves ESP at S; when ret executes those words
\* are untouched and every saved register, clobbered or not, holds its
\* entry value again, popped from the slot it was pushed to
C21_SavedBelowChainAndRestored ==
  (Emitted /\ lastEmit.out.savedRegs # <<>>) =>
    \A S \in EntryPointers :
      LET regs == lastEmit.out.savedRegs
          N == Len(regs)
          bottom == S + ChainBottom(lastEmit.in.chain)
          p == AfterPrologue(S)
          m == RunToRet(lastEmit.out.emitted, 1, Machine(S))
      IN /\ p.esp = S
         /\ DOMAIN p.mem = {bottom - 4 * k : k \in 1..N}
         /\ \A k \in 1..N :
              /\ p.mem[bottom - 4 * k].class = EntryWord(regs[k]).class
              /\ p.mem[bottom - 4 * k].sym = regs[k]
              /\ m.mem[bottom - 4 * k] = p.mem[bottom - 4 * k]
              /\ m.regs[regs[k]] = EntryWord(regs[k])
         /\ m.esp = bottom

\* EAX, EDX and the flags, clobbered by the opaque constants of the chain,
\* were saved and hold their entry values at ret
C21_Witness ==
  /\ Emitted
  /\ lastEmit.out.savedRegs = <<"EAX", "EDX", "EFLAGS">>
  /\ CountOps(lastEmit.out.emitted, {"opaque"}) >= 1
  /\ LET m == RunToRet(lastEmit.out.emitted, 1, Machine(0))
     IN /\ m.regs["EDX"] = EntryWord("EDX")
        /\ m.regs["EFLAGS"] = EntryWord("EFLAGS")
        /\ m.regs["EAX"] = EntryWord("EAX")

\* the addresses the chain's own pushes write, run from ESP = S
ChainAddrs(S) ==
  (DOMAIN RunToRet(lastEmit.out.emitted, 1, Machine(S)).mem)
  \ (DOMAIN AfterPrologue(S).mem)

\* C22 as stated: after the prologue the stack holds, from high to low
\* address, the caller's context, then the saved registers, then the words
\* reserved for the chain, and ESP is back at its pre-chain value
C22_Original ==
  (Emitted /\ lastEmit.out.savedRegs # <<>>) =>
    LET p == AfterPrologue(0)
        reserved == ChainAddrs(0)
    IN /\ p.esp = 0
       /\ \A a \in DOMAIN p.mem : a < 0
       /\ \A a \in DOMAIN p.mem, c \in reserved : c < a

\* C22 (amended): after the prologue the stack holds, from high to low
\* address, the caller's context, then the words reserved for the chain,
\* then the saved registers, and ESP is back at its pre-chain value
C22_SavedUnderReservedWords ==
  (Emitted /\ lastEmit.out.savedRegs # <<>>) =>
    LET p == AfterPrologue(0)
        reserved == ChainAddrs(0)
        words == LoweredLen(lastEmit.in.chain) + SaeSlots(lastEmit.in.chain)
    IN /\ p.esp = 0
       /\ reserved = {-4 * k : k \in 1..words}
       /\ Cardinality(DOMAIN p.mem) = Len(lastEmit.out.savedRegs)
       /\ \A a \in DOMAIN p.mem, c \in reserved : a < c

\* EAX was saved under a chain of two elements and the flags word
C22_Witness ==
  /\ Emitted
  /\ lastEmit.out.savedRegs = <<"EAX">>
  /\ lastEmit.in.chain.flagSave = "SAVE_AFTER_EXEC"
  /\ Len(lastEmit.in.chain.chain) = 1
  /\ AfterPrologue(0).esp = 0
  /\ DOMAIN AfterPrologue(0).mem = {-16}
  /\ ChainAddrs(0) = {-12, -8, -4}

\* the clobber sets of the opaque constants the emitted code runs, united
ClobberedByEmitted(e) ==
  UNION {e[i].opq.clobbered : i \in {j \in 1..Len(e) : e[j].op = "opaque"}}

\* C23: the registers the prologue saves are the union of the clobber sets
\* of the opaque constants attached to the chain's pushes, with EFLAGS in
\* the set iff the chain is SAVE_BEFORE_EXEC, whatever the constants report;
\* without opaque predicates the set is {EFLAGS} for SAVE_BEFORE_EXEC and
\* empty otherwise; the prologue pushes exactly these registers
C23_SaveSet ==
  Emitted =>
    LET e == lastEmit.out.emitted
        sbe == lastEmit.in.chain.flagSave = "SAVE_BEFORE_EXEC"
        saved == Range(lastEmit.out.savedRegs)
        pre == BeforeChainLabel(e)
        pushedRegs == {pre[i].reg : i \in {j \in 1..Len(pre) :
                                              pre[j].op \in {"push_reg", "pushf"}}}
    IN /\ saved \ {"EFLAGS"} = ClobberedByEmitted(e) \ {"EFLAGS"}
       /\ ("EFLAGS" \in saved) <=> sbe
       /\ ~lastEmit.in.param.opaquePredicateEnabled =>
            saved = IF sbe THEN {"EFLAGS"} ELSE {}
       /\ pushedRegs = saved
       /\ NoDuplicates(lastEmit.out.savedRegs)

\* an opaque constant that clobbers EAX, EDX and the flags in a NOT_SAVED
\* chain: EAX and EDX are saved, the flags are not
C23_Witness ==
  /\ Emitted
  /\ lastEmit.in.chain.flagSave = "NOT_SAVED"
  /\ "EFLAGS" \in ClobberedByEmitted(lastEmit.out.emitted)
  /\ lastEmit.out.savedRegs = <<"EAX", "EDX">>


----------------------------------------------------------------------------
(* Properties of the readable labels *)

\* a name with every '$' replaced by '_'
NoDollar(name) == [i \in 1..Len(name) |-> IF name[i] = "$" THEN "_" ELSE name[i]]

\* C27: with readable labels the chain label is '<f>_chain_<i>' and the
\* resume label 'resume_<f>_chain_<i>', both with every '$' of the function
\* name replaced by '_': neither label contains '$'
C27_Original ==
  (Emitted /\ lastEmit.in.useChainLabel) =>
    LET f == lastEmit.in.funcName
        base == NoDollar(f) \o <<"_chain_", ToString(lastEmit.in.id)>>
    IN /\ lastEmit.out.asChainLabel = base
       /\ lastEmit.out.asResumeLabel = <<"resume_">> \o base
       /\ "$" \notin Range(lastEmit.out.asChainLabel)
       /\ "$" \notin Range(lastEmit.out.asResumeLabel)

\* a resume label that is emitted after the ret and still carries the '$'
\* of the function name, next to a chain label that does not
C27_Witness ==
  /\ Emitted
  /\ lastEmit.in.useChainLabel
  /\ lastEmit.out.resumeLabelRequired
  /\ "$" \in Range(lastEmit.in.funcName)
  /\ "$" \notin Range(lastEmit.out.asChainLabel)
  /\ \E i \in 1..Len(lastEmit.out.emitted) :
       /\ lastEmit.out.emitted[i].op = "label"
       /\ "$" \in Range(lastEmit.out.emitted[i].label)


----------------------------------------------------------------------------
(* Properties of the resume label *)

\* positions after the ret where label l is attached
AfterRetLabels(e, l) ==
  {i \in (FirstIndex(e, "ret") + 1)..Len(e) : e[i] = AsPutLabel(l)}

\* C24: the resume label is emitted after the ret iff a JmpFallthrough was
\* lowered while the anchor did not count as last in its block; a label
\* pushed as fall-through continuation is attached at one place, after the
\* ret or at the start of the layout successor, never both; a chain whose
\* continuations are jump targets, the layout successor or the dummy 0 has
\* no label after its ret
C24_ResumeLabel ==
  Emitted =>
    LET out == lastEmit.out
        e == out.emitted
        resume == out.asResumeLabel
        notLast == ~(lastEmit.in.isLastNode
                     /\ lastEmit.in.chain.flagSave # "SAVE_AFTER_EXEC")
        hasFallthrough == \E i \in 1..Len(LoweredElems) :
                            LoweredElems[i].type = "JMP_FALLTHROUGH"
        pushed == \E i \in 1..Len(out.pushchain) :
                    /\ out.pushchain[i].kind = "PUSH_LABEL"
                    /\ out.pushchain[i].label = resume
        afterRet == AfterRetLabels(e, resume)
        atSuccessor == \E i \in 1..Len(out.putLabels) :
                         out.putLabels[i].label = resume
    IN /\ (afterRet # {}) <=> (hasFallthrough /\ notLast)
       /\ (afterRet # {}) <=> out.resumeLabelRequired
       /\ Cardinality(afterRet) <= 1
       /\ pushed => (afterRet # {}) # atSuccessor
       /\ ~pushed => afterRet = {} /\ ~atSuccessor
       /\ \A i \in 1..Len(out.putLabels) :
            out.putLabels[i].label = resume
              => out.putLabels[i].block = "layout_successor"
       /\ \A i \in 1..Len(e) :
            (e[i].op = "label" /\ e[i].label = resume) => i \in afterRet

\* a chain with a JmpBlock and a JmpFallthrough whose anchor is not last:
\* the resume label is pushed and stands once after the ret, and the jump
\* target's label stands in its own block only
C24_Witness ==
  /\ Emitted
  /\ ~lastEmit.in.isLastNode
  /\ \E i, j \in 1..Len(LoweredElems) :
       /\ LoweredElems[i].type = "JMP_FALLTHROUGH"
       /\ LoweredElems[j].type = "JMP_BLOCK"
  /\ Cardinality(AfterRetLabels(lastEmit.out.emitted,
                                lastEmit.out.asResumeLabel)) = 1
  /\ Len(lastEmit.out.putLabels) = 1
  /\ lastEmit.out.putLabels[1].label # lastEmit.out.asResumeLabel


----------------------------------------------------------------------------
(* Properties of the driver: chains with a jump, and the block boundary *)

\* the step processed a real instruction; its entry is the last of hist'
Processed == Len(hist') = Len(hist) + 1

\* the instructions of the function whose ropified chain is c
StemsOf(c) == {n \in 1..Len(hist) : hist[n].status = "OK" /\ hist[n].result = c}

\* C25: the driver merges two chains only if neither contains a jump: every
\* chain with a jump that reaches the emission engine, and every pending
\* chain with a jump, is the chain of exactly one instruction, its anchor;
\* and a pending chain with a jump is emitted before the chain of the next
\* ropified instruction is taken, which then is pending on its own
C25_JumpChainsAlone ==
  /\ [](/\ \A n \in 1..Len(calls) :
            IsJump(calls[n].chain) =>
              /\ Cardinality(StemsOf(calls[n].chain)) = 1
              /\ \A k \in StemsOf(calls[n].chain) :
                   hist[k].id = calls[n].anchor
        /\ (pc = "iter" /\ valid(chain0) /\ IsJump(chain0)) =>
              /\ Cardinality(StemsOf(chain0)) = 1
              /\ \A k \in StemsOf(chain0) : hist[k].id = MBB[prevMI].id)
  /\ [][(pc = "iter" /\ Processed /\ hist'[Len(hist')].status = "OK") =>
          LET result == hist'[Len(hist')].result
              merged == valid(chain0) /\ chain0' # result
          IN /\ merged => /\ ~IsJump(chain0) /\ ~IsJump(result)
                          /\ chain0'.chain = chain0.chain \o result.chain
                          /\ calls' = calls
             /\ (valid(chain0) /\ (IsJump(chain0) \/ IsJump(result))) =>
                  /\ Len(calls') = Len(calls) + 1
                  /\ calls'[Len(calls')].chain = chain0
                  /\ chain0' = result]_vars

\* a jump was ropified in the middle of a block and another instruction
\* after it: the jump's chain went to the engine alone, the next chain is
\* pending alone
C25_Witness ==
  /\ pc = "iter"
  /\ Len(hist) = 2
  /\ hist[1].status = "OK" /\ IsJump(hist[1].result)
  /\ hist[2].status = "OK" /\ ~IsJump(hist[2].result)
  /\ Len(calls) = 1
  /\ calls[1].chain = hist[1].result
  /\ calls[1].anchor = hist[1].id
  /\ chain0 = hist[2].result


\* ids of the instructions of the block being iterated
BlockIds == {MBB[k].id : k \in 1..Len(MBB)}

\* the elements of c are the chains of consecutive instructions of the
\* block being iterated
WithinBlock(c) ==
  \E i, j \in 1..Len(BlockHist) :
    /\ i <= j
    /\ c.chain = FlattenChains([k \in 1..(j - i + 1) |->
                                  BlockHist[i + k - 1].result.chain])

\* C26: while a block is iterated no instruction is erased; when the
\* iteration ends the pending chain is emitted, then every instruction of
\* the deletion list is erased, then the list is emptied; so between two
\* blocks there is neither a pending chain nor an instruction to delete,
\* and every emitted chain and every deletion belongs to one block
C26_BlockBoundary ==
  /\ [](pc = "blocks" => ~valid(chain0) /\ instrToDelete = <<>>)
  /\ [][/\ (pc = "iter" /\ pc' = "iter") => erased' = erased
        /\ (pc = "iter" /\ Len(calls') > Len(calls)) =>
              /\ calls'[Len(calls')].anchor \in BlockIds
              /\ WithinBlock(calls'[Len(calls')].chain)
        /\ (pc = "iter" /\ pc' = "blocks") =>
              /\ valid(chain0) =>
                   /\ Len(calls') = Len(calls) + 1
                   /\ calls'[Len(calls')].chain = chain0
              /\ ~valid(chain0) => calls' = calls
              /\ Len(erased') = Len(erased) + Len(instrToDelete)
              /\ \A k \in 1..Len(instrToDelete) :
                   erased'[Len(erased) + k] = MBB[instrToDelete[k]].id
              /\ \A k \in 1..Len(erased) : erased'[k] = erased[k]
              /\ DeletionIds \subseteq BlockIds
              /\ instrToDelete' = <<>>
              /\ ~valid(chain0')]_vars

\* the second block of a function ended: the instruction ropified in the
\* first block and the one ropified in the second are both erased, each by
\* the end of its own block, each with a chain of its own
C26_Witness ==
  /\ pc = "blocks"
  /\ Len(hist) = 2
  /\ Len(MBB) = 1
  /\ Len(calls) = 2
  /\ calls[1].chain = hist[1].result
  /\ calls[2].chain = hist[2].result
  /\ erased = <<hist[1].id, hist[2].id>>
  /\ instrToDelete = <<>>
  /\ ~valid(chain0)


----------------------------------------------------------------------------
(* Properties of the pushed stack pointer *)

\* the lowering state once the elements j..Len of the chain are lowered
LoweringAfter(j) ==
  LET in == lastEmit.in
      elems == LoweredElems
      labels == ChainLabels(in.useChainLabel, in.funcName, in.id)
      ctx == [param |-> in.param, funcName |-> in.funcName, id |-> in.id,
              isLastInstrInBlock |->
                 in.isLastNode /\ in.chain.flagSave # "SAVE_AFTER_EXEC",
              hasLayoutSucc |-> in.hasLayoutSucc,
              asResumeLabel |-> labels.asResumeLabel]
      rest == SubSeq(elems, j, Len(elems))
  IN LowerFrom(rest, Len(rest),
               PushEflagsFirst(LowerInit(lastEmit.usedBefore), in.chain.flagSave),
               ctx, SubSeq(lastEmit.draws, j, Len(elems)))

\* values of ESP at the original instruction, one of them next to the
\* wrap of the 32-bit address space
OriginalEsps == {0, 4096, MinS32 + 8}

\* the word of chain element i when ret executes in machine m
ElemWord(m, i) == m.mem[Add32(m.esp, 4 * (i - 1))]

\* C28: in every flag-save mode the offset recorded for an EspPush is the
\* value its 'push esp' pushes at run time minus ESP at the original
\* instruction; so the immediate pushed for an EspOffset(id, v), added to
\* the value pushed by the EspPush of id lowered last before it, is the
\* original ESP plus v, modulo 2^32
C28_PushedEsp ==
  Emitted =>
    \A S \in OriginalEsps :
      LET m == RunToRet(lastEmit.out.emitted, 1, Machine(S))
          elems == LoweredElems
      IN \A i \in 1..Len(elems) :
           /\ elems[i].type = "ESP_PUSH" =>
                /\ ElemWord(m, i).class = "esp"
                /\ LoweringAfter(i).espOffsetMap[elems[i].esp_id]
                     = Sub32(ElemWord(m, i).value, S)
           /\ elems[i].type = "ESP_OFFSET" =>
                LET later == {j \in (i + 1)..Len(elems) :
                                IsEspPushOf(elems[j], elems[i].esp_id)}
                    rec == CHOOSE j \in later : \A k \in later : j <= k
                IN /\ ElemWord(m, i).class = "imm"
                   /\ ElemWord(m, i).value
                        = elems[i].value
                          - LoweringAfter(rec).espOffsetMap[elems[i].esp_id]
                   /\ Add32(ElemWord(m, i).value, ElemWord(m, rec).value)
                        = Add32(S, elems[i].value)

\* a SAVE_AFTER_EXEC chain EspOffset(1, 12), EspPush(1): below the saved
\* flags and the continuation the 'push esp' pushes S - 8, the offset
\* recorded is -8 and the immediate pushed is 20
C28_Witness ==
  /\ Emitted
  /\ lastEmit.in.chain.flagSave = "SAVE_AFTER_EXEC"
  /\ lastEmit.in.chain.chain = <<EspOffset(1, 12), EspPush(1)>>
  /\ LoweringAfter(2).espOffsetMap[1] = -8
  /\ LET m == RunToRet(lastEmit.out.emitted, 1, Machine(4096))
     IN /\ ElemWord(m, 2).value = 4088
        /\ ElemWord(m, 1).value = 20


----------------------------------------------------------------------------
(* Properties of the gadget anchors *)

\* positions of the Gadget elements of the lowered chain, ascending
GadgetPositions ==
  SortedNat({i \in 1..Len(LoweredElems) : LoweredElems[i].type = "GADGET"})

\* the pushes queued for the Gadget elements, in lowering order
GadgetPushes ==
  SelectSeq(lastEmit.out.pushchain, LAMBDA p : p.kind = "PUSH_GADGET")

\* C29: the offsets sampled for a Gadget element are all relative to the
\* one anchor symbol drawn for it, and the anchor's address plus an offset
\* is the sampled gadget address modulo 2^32, also for a gadget below its
\* anchor; the plain lowering pushes the anchor's label plus the first
\* offset, which the linker resolves to the first sampled address
C29_AnchoredOffsets ==
  Emitted =>
    LET out == lastEmit.out
        n == Len(GadgetPositions)
        m == RunToRet(out.emitted, 1, Machine(0))
    IN /\ Len(out.samples) = n
       /\ Len(GadgetPushes) = n
       /\ \A j \in 1..n :
            LET i == GadgetPositions[j]
                sample == out.samples[n + 1 - j]
                p == GadgetPushes[n + 1 - j]
                anchor == SymbolTable[sample.sym]
                addresses == GadgetAddresses[LoweredElems[i].microgadget]
                order == SortedNat(sample.pos)
            IN /\ sample.sym = lastEmit.draws[i].sym
               /\ sample.microgadget = LoweredElems[i].microgadget
               /\ Len(sample.offsets) = Len(order)
               /\ \A t \in 1..Len(sample.offsets) :
                    /\ sample.offsets[t] \in MinS32..MaxS32
                    /\ Add32(anchor.Address, sample.offsets[t])
                         = addresses[order[t]]
               /\ p.ref = sample.sym
               /\ sample.offsets # <<>> => p.value = sample.offsets[1]
               /\ (~p.opaqueConstant.present /\ sample.offsets # <<>>) =>
                    /\ ElemWord(m, i).class = "sym"
                    /\ ElemWord(m, i).sym = anchor.Label
                    /\ Add32(anchor.Address, ElemWord(m, i).value)
                         = addresses[order[1]]

\* a gadget at 4100 anchored at fopen, which lies at 8192: the plain
\* lowering pushes fopen - 4092
C29_Witness ==
  /\ Emitted
  /\ ~lastEmit.in.param.opaquePredicateEnabled
  /\ Len(lastEmit.out.samples) = 1
  /\ lastEmit.out.samples[1].sym = "fopen"
  /\ lastEmit.out.samples[1].offsets = <<-4092>>
  /\ \E i \in 1..Len(lastEmit.out.emitted) :
       lastEmit.out.emitted[i] = AsPushSym("fopen", -4092)


----------------------------------------------------------------------------
(* Properties of the position of the restore sequence *)

\* the last push before position R of e
LastPushBefore(e, R) ==
  CHOOSE i \in 1..(R - 1) :
    /\ e[i].op \in PushOps
    /\ \A j \in (i + 1)..(R - 1) : e[j].op \notin PushOps

\* C30: when registers are saved, the restore sequence, lea esp,[esp-4N]
\* and the N pops, stands between the last push of the chain and the ret,
\* and it leaves ESP where the chain's pushes left it, at the chain's first
\* element, when ret executes; when no register is saved, no lea and no
\* pop is emitted, nothing but the version directives precedes the chain
\* label, and the ret follows the last push of the chain
C30_RestoreBeforeRet ==
  Emitted =>
    LET out == lastEmit.out
        e == out.emitted
        N == Len(out.savedRegs)
        L == FirstIndex(e, "label")
        R == FirstIndex(e, "ret")
        last == LastPushBefore(e, R)
        sae == SaeSlots(lastEmit.in.chain)
        m == RunToRet(e, 1, Machine(0))
    IN /\ L < last /\ last < R
       /\ m.esp = ChainBottom(lastEmit.in.chain)
       /\ HoldsElem(m, ChainOnStack, 1, 1)
       /\ IF N > 0
          THEN /\ R = last + N + 2
               /\ e[last + 1] = AsLeaEsp(-4 * N)
               /\ \A k \in 1..N :
                    e[last + 1 + k] = RestoreReg(out.savedRegs[N + 1 - k])
               /\ RunToRet(SubSeq(e, 1, last), 1, Machine(0)).esp = m.esp
               /\ CountOps(e, {"lea_esp"}) = 3
               /\ CountOps(e, {"pop_reg", "popf"}) = N + sae
          ELSE /\ R = last + 1
               /\ CountOps(e, {"lea_esp", "pop_reg"}) = 0
               /\ CountOps(e, {"popf", "pushf"}) = 2 * sae
               /\ \A i \in 1..(L - 1) : e[i].op = "symver"
               /\ \A i \in 1..(R - 1) : e[i].op # "popf"

\* EAX and EDX are restored right after the last of the chain's pushes and
\* right before the ret
C30_Witness ==
  /\ Emitted
  /\ lastEmit.out.savedRegs = <<"EAX", "EDX">>
  /\ LET e == lastEmit.out.emitted
         R == FirstIndex(e, "ret")
     IN /\ R > 4
        /\ e[R - 4].op \in PushOps
        /\ SubSeq(e, R - 3, R - 1)
             = <<AsLeaEsp(-8), AsPopReg("EDX"), AsPopReg("EAX")>>
        /\ RunToRet(e, 1, Machine(0)).esp = ChainBottom(lastEmit.in.chain)


----------------------------------------------------------------------------
(* Properties of the saved flags *)

\* positions of e whose instruction modifies EFLAGS: the add of an
\* opaque-lowered push, and an opaque constant that clobbers the flags
FlagWriters(e) ==
  {i \in 1..Len(e) :
     \/ e[i].op \in {"add_imm", "add_gv", "add_sym", "add_label"}
     \/ e[i].op = "opaque" /\ "EFLAGS" \in e[i].opq.clobbered}

\* positions of e with operation op
IndicesOf(e, op) == {i \in 1..Len(e) : e[i].op = op}

\* C31: in a chain that saves the flags every emitted instruction that
\* modifies them lies after the one pushf and before the one popf; for
\* SAVE_BEFORE_EXEC the pushf stands in the prologue, before the chain
\* label, and the popf before the ret; for SAVE_AFTER_EXEC the pushf is the
\* first instruction after the chain label and the popf follows the resume
\* label, which follows the ret
C31_FlagWritesBracketed ==
  (Emitted /\ lastEmit.in.chain.flagSave # "NOT_SAVED") =>
    LET out == lastEmit.out
        e == out.emitted
        L == FirstIndex(e, "label")
        R == FirstIndex(e, "ret")
        pushfs == IndicesOf(e, "pushf")
        popfs == IndicesOf(e, "popf")
    IN /\ Cardinality(pushfs) = 1
       /\ Cardinality(popfs) = 1
       /\ \A P \in pushfs, Q \in popfs :
            /\ \A i \in FlagWriters(e) : P < i /\ i < Q /\ i < R
            /\ IF lastEmit.in.chain.flagSave = "SAVE_BEFORE_EXEC"
               THEN P < L /\ L < Q /\ Q < R
               ELSE /\ P = L + 1
                    /\ Q = Len(e)
                    /\ Q = R + 2
                    /\ e[R + 1] = AsPutLabel(out.asResumeLabel)

\* a SAVE_AFTER_EXEC chain with an opaque-lowered push: its add stands
\* between the pushf that opens the chain and the popf after the resume label
C31_Witness ==
  /\ Emitted
  /\ lastEmit.in.chain.flagSave = "SAVE_AFTER_EXEC"
  /\ FlagWriters(lastEmit.out.emitted) # {}
  /\ lastEmit.out.emitted[Len(lastEmit.out.emitted)] = AsPopf
  /\ lastEmit.out.emitted[FirstIndex(lastEmit.out.emitted, "label") + 1] = AsPushf


----------------------------------------------------------------------------
(* Properties of the driver: jumps and SAVE_AFTER_EXEC *)

\* the chain has a jump flag set and restores the flags after the ret
JumpSavedAfter(c) == IsJump(c) /\ c.flagSave = "SAVE_AFTER_EXEC"

\* number of popf emitted after the first ret of e
PopfAfterRet(e) ==
  CountOps(SubSeq(e, FirstIndex(e, "ret") + 1, Len(e)), {"popf"})

\* C32: whatever the ropifier answers, no chain the driver passes to the
\* emission engine, merged or not, and no pending chain has a jump flag set
\* together with SAVE_AFTER_EXEC; so the engine's assertion that not both
\* jump flags are set under SAVE_AFTER_EXEC holds at every call, and no
\* popf is emitted after the ret of a chain with a jump
C32_NoJumpSavedAfter ==
  /\ ~JumpSavedAfter(chain0)
  /\ \A n \in 1..Len(calls) :
       LET c == calls[n].chain
       IN /\ ~JumpSavedAfter(c)
          /\ c.flagSave = "SAVE_AFTER_EXEC" =>
               ~c.hasUnconditionalJump \/ ~c.hasConditionalJump
          /\ (IsJump(c) /\ ~calls[n].out.fatal) =>
               PopfAfterRet(calls[n].out.emitted) = 0

\* the ropifier answered a conditional jump with both flags set under
\* SAVE_AFTER_EXEC, which was forced to unsupported, and then a jump that
\* does not save the flags, whose chain was emitted without a popf
C32_Witness ==
  /\ pc = "blocks"
  /\ Len(hist) = 2
  /\ hist[1].ret = "OK" /\ hist[1].status = "ERR_UNSUPPORTED"
  /\ hist[1].result.hasConditionalJump /\ hist[1].result.hasUnconditionalJump
  /\ hist[1].result.flagSave = "SAVE_AFTER_EXEC"
  /\ hist[2].status = "OK" /\ IsJump(hist[2].result)
  /\ Len(calls) = 1
  /\ calls[1].chain = hist[2].result
  /\ PopfAfterRet(calls[1].out.emitted) = 0


----------------------------------------------------------------------------
(* Properties of the driver: the flush anchor *)

\* C33: whenever a chain is pending, prevMI is not null, points into the
\* block being iterated at the last instruction ropified, which is the one
\* whose chain was assigned to or merged last into the pending chain, and
\* that instruction waits in the deletion list and is not erased; so every
\* call of the emission engine is anchored at a live instruction
C33_LiveAnchor ==
  /\ []((valid(chain0) /\ pc # "fatal") =>
          /\ pc = "iter"
          /\ prevMI \in 1..Len(MBB)
          /\ ~MBB[prevMI].isDebug
          /\ MBB[prevMI].id \notin Range(erased)
          /\ instrToDelete # <<>>
          /\ instrToDelete[Len(instrToDelete)] = prevMI
          /\ BlockHist # <<>>
          /\ LET h == BlockHist[Len(BlockHist)]
                 n == Len(chain0.chain)
             IN /\ h.id = MBB[prevMI].id
                /\ h.status = "OK"
                /\ Len(h.result.chain) <= n
                /\ SubSeq(chain0.chain, n - Len(h.result.chain) + 1, n)
                     = h.result.chain)
  /\ [][Len(calls') > Len(calls) =>
          /\ prevMI \in 1..Len(MBB)
          /\ calls'[Len(calls')].anchor = MBB[prevMI].id
          /\ calls'[Len(calls')].anchor \notin Range(erased)
          /\ prevMI \in Range(instrToDelete)]_vars

\* two chains were merged past a debug instruction: prevMI points at the
\* second ropified instruction, the third of the block
C33_Witness ==
  /\ pc = "iter"
  /\ Len(MBB) = 3 /\ MBB[2].isDebug
  /\ Len(hist) = 2
  /\ chain0.chain = hist[1].result.chain \o hist[2].result.chain
  /\ prevMI = 3
  /\ instrToDelete = <<1, 3>>
  /\ erased = <<>>


----------------------------------------------------------------------------
(* Properties of the sampling under branch divergence *)

\* C34: with branch divergence enabled, for every value of the maximum
\* number of branches, 0 included, a Gadget element with at least one
\* address gets at least one sampled address, so offsets[0] is defined
C34_Original ==
  (lastEmit.valid /\ lastEmit.in.param.opaqueBranchDivergenceEnabled) =>
    /\ ~lastEmit.out.ub
    /\ \A k \in 1..Len(lastEmit.out.samples) :
         Len(GadgetAddresses[lastEmit.out.samples[k].microgadget]) >= 1
           => /\ Cardinality(lastEmit.out.samples[k].pos) >= 1
              /\ Len(lastEmit.out.samples[k].offsets) >= 1

\* a gadget with four addresses lowered with at most 0 branches: nothing
\* is sampled and offsets[0] is read from an empty vector
C34_Witness ==
  /\ lastEmit.valid
  /\ lastEmit.in.param.opaqueBranchDivergenceEnabled
  /\ lastEmit.in.param.opaqueBranchDivergenceMaxBranches = 0
  /\ lastEmit.in.chain.chain = <<Gadget("pop_eax")>>
  /\ Len(GadgetAddresses["pop_eax"]) = 4
  /\ lastEmit.out.samples[1].num_branches = 0
  /\ lastEmit.out.samples[1].offsets = <<>>
  /\ lastEmit.out.ub


----------------------------------------------------------------------------
(* Properties of the attachment of opaque constants *)

\* the push queued for element i of the lowered chain
PushOf(i) ==
  lastEmit.out.pushchain[SaeSlots(lastEmit.in.chain)
                         + Len(LoweredElems) + 1 - i]

\* the sample taken for the Gadget at position i of the lowered chain
SampleOf(i) ==
  LET later == {j \in i..Len(LoweredElems) : LoweredElems[j].type = "GADGET"}
  IN lastEmit.out.samples[Cardinality(later)]

\* the construct is a plain opaque constant: one value, no adjustor
IsPlainConstant(opq) ==
  opq.present /\ opq.inputs = <<>> /\ Len(opq.outputs) = 1

\* C35: a push carries an opaque constant exactly as follows: ImmValue and
\* ImmGlobal iff opaque predicates and the obfuscation of immediates are
\* enabled; JmpBlock and a JmpFallthrough that pushes a label iff opaque
\* predicates and the obfuscation of branch targets are enabled; Gadget iff
\* opaque predicates are enabled, with a branching producer iff more than
\* one address was sampled, composed with a value adjustor onto the sampled
\* offsets; the pushes of ESP and of the flags, the dummy 0 of a
\* fall-through without successor and the immediate of an EspOffset never
C35_OpaqueAttachment ==
  Emitted =>
    LET param == lastEmit.in.param
        op == param.opaquePredicateEnabled
        elems == LoweredElems
    IN /\ Len(lastEmit.out.pushchain)
            = Len(elems) + SaeSlots(lastEmit.in.chain)
       /\ SaeSlots(lastEmit.in.chain) = 1 =>
            /\ lastEmit.out.pushchain[1].kind = "PUSH_EFLAGS"
            /\ ~lastEmit.out.pushchain[1].opaqueConstant.present
       /\ CountOps(lastEmit.out.emitted, {"opaque"})
            = Cardinality({i \in 1..Len(elems) : PushOf(i).opaqueConstant.present})
       /\ \A i \in 1..Len(elems) :
            LET p == PushOf(i)
                opq == p.opaqueConstant
            IN CASE elems[i].type = "IMM_VALUE" ->
                      /\ p.kind = "PUSH_IMM"
                      /\ opq.present <=> (op /\ param.obfuscateImmediateOperand)
                      /\ opq.present => IsPlainConstant(opq)
                 [] elems[i].type = "IMM_GLOBAL" ->
                      /\ p.kind = "PUSH_GV"
                      /\ opq.present <=> (op /\ param.obfuscateImmediateOperand)
                      /\ opq.present => IsPlainConstant(opq)
                 [] elems[i].type = "JMP_BLOCK" ->
                      /\ p.kind = "PUSH_LABEL"
                      /\ opq.present <=> (op /\ param.obfuscateBranchTarget)
                      /\ opq.present => IsPlainConstant(opq)
                 [] elems[i].type = "JMP_FALLTHROUGH" ->
                      IF p.kind = "PUSH_LABEL"
                      THEN /\ opq.present <=> (op /\ param.obfuscateBranchTarget)
                           /\ opq.present => IsPlainConstant(opq)
                      ELSE p.kind = "PUSH_IMM" /\ p.value = 0 /\ ~opq.present
                 [] elems[i].type = "GADGET" ->
                      /\ p.kind = "PUSH_GADGET"
                      /\ opq.present <=> op
                      /\ opq.present =>
                           /\ opq.outputs = SampleOf(i).offsets
                           /\ Len(opq.inputs) >= 1
                           /\ Len(opq.inputs) > 1
                                <=> Cardinality(SampleOf(i).pos) > 1
                           /\ Len(opq.inputs) > 1
                                => Len(opq.inputs) = Len(opq.outputs)
                 [] elems[i].type = "ESP_PUSH" ->
                      p.kind = "PUSH_ESP" /\ ~opq.present
                 [] elems[i].type = "ESP_OFFSET" ->
                      p.kind = "PUSH_IMM" /\ ~opq.present

\* opaque predicates and the obfuscation of branch targets are enabled,
\* the obfuscation of immediates is not: of ImmValue, JmpBlock only the jump
\* target carries an opaque constant
C35_Witness ==
  /\ Emitted
  /\ lastEmit.in.param.opaquePredicateEnabled
  /\ lastEmit.in.param.obfuscateBranchTarget
  /\ ~lastEmit.in.param.obfuscateImmediateOperand
  /\ lastEmit.in.chain.chain = <<ImmValue(5), JmpBlock("bb2")>>
  /\ ~PushOf(1).opaqueConstant.present
  /\ PushOf(2).opaqueConstant.present


----------------------------------------------------------------------------
(* The older emission engine, with a fixed offset for the saved flags:
   insertROPChain of src/Ropfuscator/ROPfuscatorCore.cpp *)

AsCall(label)     == Tok("call", "", "", label, 0, NoOpaque)
AsJmp(label)      == Tok("jmp", "", "", label, 0, NoOpaque)
AsAddMemSym(sym)  == Tok("add_mem_sym", "", sym, <<>>, 0, NoOpaque)
AsAddMemImm(v)    == Tok("add_mem_imm", "", "", <<>>, v, NoOpaque)

\* opaqueConstant->compile(as, stackOffset) of a constant created for the
\* storage STACK_0: the value ends up in the word at ESP + stackOffset
AsOpaqueStack(value, stackOffset, clobberedRegs) ==
  Tok("opaque_mem", "", "", <<>>, stackOffset,
      Opaque(TRUE, <<>>, <<value>>, Range(clobberedRegs)))

\* saveRegs: one push per clobbered register, in the order of the vector
saveRegs(clobberedRegs) ==
  [i \in 1..Len(clobberedRegs) |->
     IF clobberedRegs[i] = "EFLAGS" THEN AsPushf
     ELSE AsPushReg(clobberedRegs[i])]

\* restoreRegs: one pop per clobbered register, in reverse order
restoreRegs(clobberedRegs) ==
  [i \in 1..Len(clobberedRegs) |->
     LET r == clobberedRegs[Len(clobberedRegs) + 1 - i]
     IN IF r = "EFLAGS" THEN AsPopf ELSE AsPopReg(r)]

\* int flagSavedOffset = 4 * (chain.size() + 1), less 4 for a chain with a
\* jump (lines 209-212)
flagSavedOffset(chain) ==
  4 * (Len(chain.chain) + 1) - (IF IsJump(chain) THEN 4 ELSE 0)

\* what the random symbol and the opaque factory hand out for one Gadget
FixedDraw(sym, clobberedRegs) == [sym |-> sym, clobberedRegs |-> clobberedRegs]

\* state of the lowering before the loop (lines 195-248): the prologue of
\* SAVE_BEFORE_EXEC, the pushf of SAVE_AFTER_EXEC, call and jmp for a chain
\* without a jump, the chain label
FixedInit(chain, g) ==
  LET sbe == chain.flagSave = "SAVE_BEFORE_EXEC"
      sae == chain.flagSave = "SAVE_AFTER_EXEC"
      jump == IsJump(chain)
  IN [emitted |->
        (IF sbe
         THEN <<AsLeaEsp(-flagSavedOffset(chain)), AsPushf,
                AsLeaEsp(flagSavedOffset(chain) + 4)>>
         ELSE <<>>)
        \o (IF sae THEN <<AsPushf>> ELSE <<>>)
        \o (IF jump THEN <<>>
            ELSE <<AsCall(g.chainLabel), AsJmp(g.resumeLabel)>>)
        \o <<AsPutLabel(g.chainLabel)>>,
      espOffsetMap |-> <<>>,
      espoffset |-> (IF sae THEN -4 ELSE 0) + (IF jump THEN 0 ELSE -4),
      resumeLabelRequired |-> ~jump,
      addedSuccs |-> <<>>,
      fatal |-> FALSE]

\* case GADGET (lines 269-303)
FixedLowerGadget(elem, ctx, d) ==
  LET relativeAddr == Sub32(GadgetAddresses[elem.microgadget][1],
                            SymbolTable[d.sym].Address)
  IN (IF SymbolTable[d.sym].Version # "Base" THEN <<AsSymver(d.sym)>>
      ELSE <<>>)
     \o (IF ctx.opaquePredicateEnabled
         THEN <<AsPushImm(0)>>
              \o saveRegs(d.clobberedRegs)
              \o <<AsOpaqueStack(relativeAddr, 4 * Len(d.clobberedRegs),
                                 d.clobberedRegs)>>
              \o restoreRegs(d.clobberedRegs)
              \o <<AsAddMemSym(d.sym)>>
         ELSE <<AsPushSym(d.sym, 0), AsAddMemImm(relativeAddr)>>)

\* case JMP_FALLTHROUGH (lines 313-336)
FixedLowerJmpFallthrough(ctx) ==
  IF ctx.isLastInstrInBlock
  THEN IF ctx.hasLayoutSucc
       THEN <<AsPushLabel(<<"layout_successor">>)>>
       ELSE <<AsPushImm(0)>>
  ELSE <<AsPushLabel(ctx.resumeLabel)>>

\* the switch on elem->type, then espoffset -= 4 (lines 253-359)
FixedLowerElem(elem, st, ctx, d) ==
  IF elem.type = "ESP_OFFSET" /\ elem.esp_id \notin DOMAIN st.espOffsetMap
  THEN [st EXCEPT !.fatal = TRUE]
  ELSE
    [st EXCEPT
       !.emitted = @ \o
          CASE elem.type = "IMM_VALUE"  -> <<AsPushImm(elem.value)>>
            [] elem.type = "IMM_GLOBAL" -> <<AsPushGV(elem.global, elem.value)>>
            [] elem.type = "GADGET"     -> FixedLowerGadget(elem, ctx, d)
            [] elem.type = "JMP_BLOCK"  -> <<AsPushLabel(<<elem.jmptarget>>)>>
            [] elem.type = "JMP_FALLTHROUGH" -> FixedLowerJmpFallthrough(ctx)
            [] elem.type = "ESP_PUSH"   -> <<AsPushReg("ESP")>>
            [] elem.type = "ESP_OFFSET" ->
                 <<AsPushImm(elem.value - st.espOffsetMap[elem.esp_id])>>,
       !.espOffsetMap =
          IF elem.type = "ESP_PUSH"
          THEN [k \in (DOMAIN @) \cup {elem.esp_id} |->
                  IF k = elem.esp_id THEN st.espoffset ELSE @[k]]
          ELSE @,
       !.resumeLabelRequired =
          @ \/ (elem.type = "JMP_FALLTHROUGH" /\ ~ctx.isLastInstrInBlock),
       !.addedSuccs =
          IF elem.type = "JMP_BLOCK" THEN Append(@, elem.jmptarget) ELSE @,
       !.espoffset = @ - 4]

\* for (auto elem = chain.rbegin(); elem != chain.rend(); ++elem)
RECURSIVE FixedLowerFrom(_, _, _, _, _)
FixedLowerFrom(elems, i, st, ctx, draws) ==
  IF i = 0 \/ st.fatal THEN st
  ELSE FixedLowerFrom(elems, i - 1,
                      FixedLowerElem(elems[i], st, ctx, draws[i]), ctx, draws)

\* the epilogue of SAVE_BEFORE_EXEC, ret, the resume label, the popf of
\* SAVE_AFTER_EXEC (lines 362-385)
FixedEpilogue(chain, resumeLabelRequired, g) ==
  (IF chain.flagSave = "SAVE_BEFORE_EXEC"
   THEN <<AsLeaEsp(-4), AsPopf>> ELSE <<>>)
  \o <<AsRet>>
  \o (IF resumeLabelRequired THEN <<AsPutLabel(g.resumeLabel)>> ELSE <<>>)
  \o (IF chain.flagSave = "SAVE_AFTER_EXEC" THEN <<AsPopf>> ELSE <<>>)

\* the older insertROPChain(chain, MBB, MI, chainID); opaquePredicateEnabled
\* is a member of the pass
FixedInsertROPChain(chain, isLastNode, hasLayoutSucc, funcName, id, opaquePredicateEnabled, draws) ==
  LET g == generateChainLabels(funcName, id)
      ctx == [opaquePredicateEnabled |-> opaquePredicateEnabled,
              isLastInstrInBlock |-> isLastNode,
              hasLayoutSucc |-> hasLayoutSucc,
              resumeLabel |-> g.resumeLabel]
      st == FixedLowerFrom(chain.chain, Len(chain.chain),
                           FixedInit(chain, g), ctx, draws)
  IN [fatal |-> st.fatal,
      chain |-> chain,
      espoffset |-> st.espoffset,
      resumeLabelRequired |-> st.resumeLabelRequired,
      addedSuccs |-> st.addedSuccs,
      emitted |-> IF st.fatal THEN <<>>
                  ELSE st.emitted
                       \o FixedEpilogue(chain, st.resumeLabelRequired, g)]

\* the vectors getClobberedRegs() may return for a constant stored on the
\* stack
ClobberedRegLists == {<<>>, <<"EAX">>, <<"EAX", "EDX">>, <<"EAX", "EFLAGS">>}

\* one draw per element of the chain
RECURSIVE FixedDrawSeqs(_, _)
FixedDrawSeqs(elems, opaquePredicateEnabled) ==
  IF elems = <<>> THEN {<<>>}
  ELSE {<<d>> \o rest :
          d \in IF Head(elems).type = "GADGET"
                THEN {FixedDraw("fopen", c) :
                        c \in IF opaquePredicateEnabled
                              THEN ClobberedRegLists ELSE {<<>>}}
                ELSE {FixedDraw("", <<>>)},
          rest \in FixedDrawSeqs(Tail(elems), opaquePredicateEnabled)}

\* the older engine also lowers a SAVE_BEFORE_EXEC chain that ends in a jump
FixedChainKinds == ChainKinds \cup {<<"SAVE_BEFORE_EXEC", TRUE, FALSE>>}

FixedInputs ==
  {[chain |-> Chain(e, k[1], k[2], k[3]), isLastNode |-> a[1],
    hasLayoutSucc |-> a[2], funcName |-> <<"f">>, id |-> 0,
    opaquePredicateEnabled |-> op] :
     e \in ElemSeqs(MaxChainLen), k \in FixedChainKinds, a \in AnchorKinds,
     op \in BOOLEAN}

\* the older insertROPChain is called and runs to its end
FixedEmitCall ==
  /\ pc = "idle"
  /\ \E in \in FixedInputs :
       \E draws \in FixedDrawSeqs(in.chain.chain, in.opaquePredicateEnabled) :
         LET out == FixedInsertROPChain(in.chain, in.isLastNode,
                                        in.hasLayoutSucc, in.funcName, in.id,
                                        in.opaquePredicateEnabled, draws)
         IN /\ lastEmit' = [valid |-> TRUE, in |-> in, draws |-> draws,
                            usedBefore |-> isUsed, out |-> out]
            /\ pc' = IF out.fatal THEN "fatal" ELSE "emitted"
  /\ UNCHANGED <<BA, TII, is64Bit, isUsed, instr_stat, curFunc, MBB, succs,
                 it, chain0, prevMI, chainID, instrToDelete, calls, erased,
                 hist, nInstr, symverLog, pushDemo, totals, mergeDemo, cfg>>

NextFixed ==
  \/ FixedEmitCall
  \/ EmitReturn

SpecFixed == InitEngine /\ [][NextFixed]_vars

\* one instruction of the older engine executed
ExecFixed(tok, m) ==
  CASE tok.op = "call" -> PushWord(m, Word("return", "", tok.label, 0))
    [] tok.op = "add_mem_sym" ->
         [m EXCEPT !.mem[m.esp] = [@ EXCEPT !.class = "sym", !.sym = tok.sym],
                   !.regs["EFLAGS"] = JunkWord("EFLAGS")]
    [] tok.op = "add_mem_imm" ->
         [m EXCEPT !.mem[m.esp] = [@ EXCEPT !.value = Add32(@, tok.imm)],
                   !.regs["EFLAGS"] = JunkWord("EFLAGS")]
    [] tok.op = "opaque_mem" ->
         [m EXCEPT
            !.mem[Add32(m.esp, tok.imm)] =
               [@ EXCEPT !.class = "imm", !.value = tok.opq.outputs[1]],
            !.regs = [r \in DOMAIN m.regs |->
                        IF r \in tok.opq.clobbered THEN JunkWord(r)
                        ELSE m.regs[r]]]
    [] OTHER -> Exec(tok, m)

\* the machine after instructions i..n of the emitted code; the jmp behind
\* the call is not on the path
RECURSIVE RunFixed(_, _, _, _)
RunFixed(emitted, i, n, m) ==
  IF i > n THEN m
  ELSE RunFixed(emitted, i + 1, n, ExecFixed(emitted[i], m))


----------------------------------------------------------------------------
(* Properties of the saved flags in the older engine *)

\* a SAVE_BEFORE_EXEC chain was lowered by the older engine
FixedSavedBefore ==
  /\ lastEmit.valid
  /\ "opaquePredicateEnabled" \in DOMAIN lastEmit.in
  /\ ~lastEmit.out.fatal
  /\ lastEmit.in.chain.flagSave = "SAVE_BEFORE_EXEC"

\* the word w is what element elem of the chain stands for
FixedHolds(w, elem, d) ==
  CASE elem.type = "IMM_VALUE" -> w.class = "imm" /\ w.value = elem.value
    [] elem.type = "IMM_GLOBAL" -> w.class = "gv" /\ w.sym = elem.global
    [] elem.type = "GADGET" ->
         /\ w.class = "sym" /\ w.sym = d.sym
         /\ w.value = Sub32(GadgetAddresses[elem.microgadget][1],
                            SymbolTable[d.sym].Address)
    [] elem.type = "JMP_BLOCK" -> w.class = "label"
    [] elem.type = "JMP_FALLTHROUGH" -> w.class \in {"label", "imm"}
    [] elem.type = "ESP_PUSH" -> w.class = "esp"
    [] elem.type = "ESP_OFFSET" -> w.class = "imm"

\* C36 as stated: in the older engine, for a SAVE_BEFORE_EXEC chain the
\* word written by the pushf of the prologue is the word read by the popf
\* before ret, ESP points at the first element of the chain when ret
\* executes, and nothing emitted between that pushf and that popf writes the
\* word of the saved flags, the register saves around the opaque constant of
\* a Gadget included: the popf restores the flags the function was entered
\* with
C36_Original ==
  FixedSavedBefore =>
    LET e == lastEmit.out.emitted
        ret == FirstIndex(e, "ret")
        saved == RunFixed(e, 1, 2, Machine(4096))
        atPopf == RunFixed(e, 1, ret - 2, Machine(4096))
        atRet == ExecFixed(e[ret - 1], atPopf)
    IN /\ e[2].op = "pushf" /\ e[ret - 1].op = "popf"
       /\ atPopf.esp = saved.esp
       /\ atRet.esp = Add32(saved.esp, 4)
       /\ atRet.esp \in DOMAIN atRet.mem
       /\ FixedHolds(atRet.mem[atRet.esp], lastEmit.in.chain.chain[1],
                     lastEmit.draws[1])
       /\ atPopf.mem[saved.esp] = saved.mem[saved.esp]
       /\ atRet.regs["EFLAGS"] = EntryWord("EFLAGS")

\* a SAVE_BEFORE_EXEC chain whose first element is a Gadget was lowered with
\* opaque predicates enabled and one clobbered register: the save of that
\* register went to the address of the saved flags, and the popf before ret
\* loaded the register's value
C36_Witness ==
  /\ FixedSavedBefore
  /\ lastEmit.in.opaquePredicateEnabled
  /\ lastEmit.in.chain.chain = <<Gadget("xchg")>>
  /\ lastEmit.draws[1].clobberedRegs = <<"EAX">>
  /\ LET e == lastEmit.out.emitted
         ret == FirstIndex(e, "ret")
         saved == RunFixed(e, 1, 2, Machine(4096))
         atPopf == RunFixed(e, 1, ret - 2, Machine(4096))
         atRet == ExecFixed(e[ret - 1], atPopf)
     IN /\ atPopf.esp = saved.esp
        /\ saved.mem[saved.esp].class = "flags"
        /\ atPopf.mem[saved.esp].class = "reg"
        /\ atPopf.mem[saved.esp].seq > saved.mem[saved.esp].seq
        /\ atRet.regs["EFLAGS"].class = "reg"

====
